---- MODULE Spec2Model ----
\* Container Network Engine of super_orchestrator (src/src/docker_network.rs):
\* the per-container state machine, run / wait_with_timeout / terminate_* and
\* the error compilation, together with the external docker containers, the
\* clock and the process-wide cancellation flag they interact with.
EXTENDS Integers, Sequences, FiniteSets, TLC

\* ------------------------------------------------------------------ bounds
\* container names a caller can use; BTreeMap iteration order is NameOrder
NameOrder == <<"a", "b">>
Names == {NameOrder[k] : k \in 1..Len(NameOrder)}
\* number of external containers that can exist (not removed) at a time
MaxIds == 2
\* longest `names` argument passed to run / wait_with_timeout / terminate
MaxLen == 2
\* largest `duration` of a wait, counted in 256 ms polling sleeps
MaxDuration == 1
\* longest volumes or entrypoint_args list of a container
MaxItems == 3
\* largest num_retries given to wait_for_ok
MaxRetries == 3
\* most instruction lines appended to one Dockerfile
MaxLines == 3
\* most items given to one copying_from_paths / copying_from_contents call
MaxFiles == 2
\* most marker literals in the stdouts one error_compilation call reads
MaxOut == 3
\* most messages sent to one end of a NetMessenger connection
MaxMsgs == 2

Ids == 1..MaxIds
\* Option<String>::None for active_container_id
None == 0

NameSeqs == UNION {[1..k -> Names] : k \in 0..MaxLen}
Range(s) == {s[k] : k \in 1..Len(s)}
NoDup(s) == \A j, k \in 1..Len(s) : j # k => s[j] # s[k]
IndexOf(s, n) == CHOOSE k \in 1..Len(s) : s[k] = n
\* Vec::remove taking out the first element whatever the index
RemoveFirst(s, k) == Tail(s)
\* Vec::remove(k - 1)
Remove(s, k) == [j \in 1..(Len(s) - 1) |-> IF j < k THEN s[j] ELSE s[j + 1]]

\* ------------------------------------------------- stdout and CommandResult
\* What error_compilation can see of a stdout: whether it holds the literal
\* "Error { stack: [", the literal "ProbablyNotRootCauseError", and a
\* " panicked at " preceded by "thread". The engine itself never reads a
\* stdout, so its containers print one without markers.
Stdout(s, n, p) == [stack |-> s, nrc |-> n, panic |-> p]
Plain == Stdout(FALSE, FALSE, FALSE)
Stdouts == {Plain}

\* Option<CommandResult>::None
NoResult == [status |-> "none", out |-> Plain]
\* results of a container that exited by itself
ExitResults == {[status |-> "ok", out |-> Plain]}
                 \cup [status : {"fail"}, out : Stdouts]
\* what a runner that is killed while its child is alive can hold afterwards:
\* no result, or a result without exit status ("term")
TermChoices == {NoResult, [status |-> "term", out |-> Plain]}

successful(comres) == comres.status = "ok"
successful_or_terminated(comres) == comres.status \in {"ok", "term"}

\* ------------------------------------------------------------------ RunState
PreActive == [tag |-> "PreActive", child |-> "none", result |-> NoResult]
\* Active(runner): the child process of the runner is "alive", has "exited"
\* by itself or was "killed" by runner.terminate(); result is what
\* runner.take_command_result() would hand out
Active(child, result) == [tag |-> "Active", child |-> child, result |-> result]
PostActive(result) == [tag |-> "PostActive", child |-> "none", result |-> result]

VARIABLES
    set,              \* ContainerNetwork::set, name -> ContainerState
    network_active,   \* ContainerNetwork::network_active
    CTRLC_ISSUED,     \* the process-wide cancellation flag
    ext,              \* the docker daemon: id -> external container
    conf,             \* dockerfile_write_dir and the Container of every name
    w,                \* the frame of the wait_with_timeout call in progress
    ret,              \* the last engine call: operation, argument, result
    task,             \* the CtrlCTask of the program and its completion flag
    wfo,              \* the frame of a wait_for_ok call and the results of f
    sdf,              \* the SuperDockerfile being assembled and its tarball
    ec,               \* the stdouts an error_compilation call reads, its result
    net               \* the two NetMessengers of a connection and its streams

\* the state of the engine, and the state of what is used next to it
engine == <<set, network_active, CTRLC_ISSUED, ext, conf, w, ret>>
others == <<task, wfo, sdf, ec, net>>
vars == <<engine, others>>

\* an external container is "none" (no such id yet), "created", "running",
\* or "exited"; a removed container is "none" again
Live(e) == e \in {"created", "running"}

NewState ==
    [run_state |-> PreActive, active_container_id |-> None,
     already_tried_drop |-> FALSE]
is_active(state) == state.run_state.tag = "Active"

Idle == [pc |-> "idle", names |-> <<>>, polls |-> <<>>, i |-> 0,
         skip_fail |-> TRUE, tof |-> FALSE, duration |-> 0, elapsed |-> 0,
         doneAtCall |-> FALSE, okAtCall |-> FALSE, trigger |-> "none"]

\* a docker command the engine issues: "create" and "start" for the container
\* of a name, "rm" (`docker rm -f`) for the id a name holds, "network_create"
\* and "network_rm" for the network
Cmd(cmd, name, id) == [cmd |-> cmd, name |-> name, id |-> id]

\* what the engine reads or changes of a Container: the kind of its
\* Dockerfile ("Path" or "Contents"), its volumes and its entrypoint_args
Container(dockerfile, volumes, entrypoint_args) ==
    [dockerfile |-> dockerfile, volumes |-> volumes,
     entrypoint_args |-> entrypoint_args]
\* the containers a caller adds: a plain one, or one of either Dockerfile
\* kind that may bring a volume of its own
PlainContainers == {Container("Path", <<>>, <<>>)}
Containers ==
    {Container(d, v, <<>>) : d \in {"Path", "Contents"}, v \in {<<>>, <<"y">>}}
\* the item lists a caller passes to add_common_volumes and
\* add_common_entrypoint_args (a volume pair counts as one item)
ItemSeqs == {<<>>, <<"x">>, <<"x", "y">>}
\* a call that is given no container and no items
NoGiven == Container("none", <<>>, <<>>)

\* the record of an engine call: its operation, the names it was called with
\* (as passed, and as a set), its result, the contributions of a compiled
\* error, what is left of an in-out work list, the docker commands the call
\* issued, in order, the container or the items it was given, and the
\* terminate_on_failure it was given
RetOf(op, arg, res, contrib, left, cmds, given, tof) ==
    [op |-> op, arg |-> arg, names |-> Range(arg), res |-> res,
     contrib |-> contrib, left |-> left, cmds |-> cmds, given |-> given,
     terminate_on_failure |-> tof]
Ret(op, arg, res, contrib, left, cmds) ==
    RetOf(op, arg, res, contrib, left, cmds, NoGiven, FALSE)
\* no call is returning: the caller is between two calls
NoCall == Ret("none", <<>>, "Ok", {}, <<>>, <<>>)
\* a wait_with_timeout call that is still polling
Pending ==
    RetOf(ret.op, ret.arg, "Pending", {}, <<>>, <<>>, NoGiven,
          ret.terminate_on_failure)
\* a call has returned and the caller has not gone on yet
Returned == ret.op # "none" /\ ret.res # "Pending"
\* the engine can be called
Ready == w.pc = "idle" /\ ~Returned

\* no CtrlCTask has been spawned
NoTask == [status |-> "none", complete |-> FALSE]

\* the frame of wait_for_ok(num_retries, delay, f): where it is, its
\* counter i, what the calls of f returned so far and what it returned
WaitForOkFrame(pc, num_retries, i, calls, result) ==
    [pc |-> pc, num_retries |-> num_retries, i |-> i, calls |-> calls,
     result |-> result]
\* what f and wait_for_ok return: Ok(o), Err(e), or for wait_for_ok the
\* timeout error made of the last e; "none" while nothing is returned
Result(kind, val) == [kind |-> kind, val |-> val]
\* wait_for_ok is not being called
NoWaitForOk == WaitForOkFrame("none", 0, 0, <<>>, Result("none", "none"))

\* ---------------------------------------------------------------------
\* The Dockerfile assembler (SuperDockerfile) and its tarball.  Bytes are
\* kept in sequences: a keyword is one element, every separator (space,
\* newline, quote, comma, bracket) and every byte of a path or an argument
\* is an element of its own.

\* the three Dockerfile sources: a name:tag, a host path, inline contents
Dockerfile(kind, val) == [kind |-> kind, val |-> val]

\* std::fs::read(path) of a Dockerfile given by path: its bytes, or an error
FileReads == {Result("Ok", <<"G">>), Result("Err", <<>>)}

\* host paths; the last one has a space in its file name
Paths == {<<"p">>, <<"q">>, <<"p", " ", "q">>}

\* the tarball: the recorded paths and the entries of the tar builder
Tarball(paths, tar) == [paths |-> paths, tar |-> tar]

\* a copying_from_paths / copying_from_contents / with_entrypoint call: the
\* items given, one worker per item, and the lines and tarball before it
CopyCall(op, items, workers, args, pre) ==
    [op |-> op, items |-> items, workers |-> workers, args |-> args,
     pre |-> pre]

\* SuperDockerfile::new(base, image_name).  The assembler: who holds it (pc),
\* its fields, the list of the instruction lines appended so far, the call
\* in progress, and what the last call returned (with the rendered
\* Dockerfile once it is sealed)
NewSuperDockerfile(base) ==
    [pc |-> "held", base |-> base, content_extend |-> <<>>, lines |-> <<>>,
     tarball |-> Tarball(<<>>, <<>>),
     call |-> CopyCall("none", <<>>, <<>>, <<>>, <<>>), res |-> "none",
     dockerfile |-> Result("none", <<>>)]

\* no assembler was made
NoSuperDockerfile ==
    [NewSuperDockerfile(Dockerfile("none", <<>>)) EXCEPT !.pc = "none"]

\* ContainerNetwork::new(network_name, dockerfile_write_dir, log_dir)
NewEngine(dockerfile_write_dir) ==
    /\ set = [n \in {} |-> NewState]
    /\ network_active = FALSE
    /\ CTRLC_ISSUED = FALSE
    /\ ext = [id \in Ids |-> "none"]
    /\ conf = [dockerfile_write_dir |-> dockerfile_write_dir,
               container |-> [n \in {} |-> NoGiven]]
    /\ w = Idle
    /\ ret = NoCall

\* a new engine in a program that has no CtrlCTask, calls no wait_for_ok and
\* assembles no image
New(dockerfile_write_dir) ==
    /\ NewEngine(dockerfile_write_dir)
    /\ task = NoTask
    /\ ec = [set |-> <<>>, done |-> FALSE, res |-> {}]
    /\ net = [e \in {"l", "r"} |->
              [buf |-> <<>>, wire |-> <<>>, sent |-> <<>>, got |-> <<>>]]
    /\ wfo = NoWaitForOk
    /\ sdf = NoSuperDockerfile

\* an engine made without a dockerfile_write_dir
Init == New("None")

\* --------------------------------------------------- ContainerState::terminate
\* runner.terminate() followed by runner.take_command_result(): a child that
\* is still alive is killed and leaves what ch says; a runner whose child is
\* gone hands out the result it holds, if it still holds one
RunnerTerminate(rs, ch) == IF rs.child = "alive" THEN ch ELSE rs.result

TerminateKeepsId(state, ch) ==
    [active_container_id |-> state.active_container_id,
     already_tried_drop |-> state.already_tried_drop,
     run_state |-> PreActive]

TerminateState(state, ch) ==
    LET rs == state.run_state
        result == RunnerTerminate(rs, ch)
    IN [active_container_id |-> None,
        already_tried_drop |-> state.already_tried_drop,
        run_state |-> IF rs.tag = "Active" /\ result # NoResult
                      THEN PostActive(result)
                      ELSE PreActive]

\* `docker rm -f <id>` for the ids held by the states of `ns`
RmFNotIssued(e, s, ns) == e

RmF(e, s, ns) ==
    [id \in Ids |->
        IF \E n \in ns : s[n].active_container_id = id THEN "none" ELSE e[id]]

\* terminate() once on every state named in ns
TerminateNames(s, e, ns, tch) ==
    [n \in DOMAIN s |-> IF n \in ns THEN TerminateState(s[n], tch[n]) ELSE s[n]]

\* terminate() on every state of the set, listed or not
TerminateEachAll(s, names, tch) ==
    [n \in DOMAIN s |-> TerminateState(s[n], tch[n])]

\* `for name in names`: terminate() on the state of each name in turn, a name
\* that occurs twice being terminated twice; unknown names are passed over
RECURSIVE TerminateEach(_, _, _)
TerminateEach(s, names, tch) ==
    IF names = <<>> THEN s
    ELSE LET n == Head(names)
             s1 == IF n \in DOMAIN s
                   THEN [s EXCEPT ![n] = TerminateState(s[n], tch[n])]
                   ELSE s
         IN TerminateEach(s1, Tail(names), tch)

\* the `docker rm -f` commands of terminate() on the states of `names` in
\* turn: one for every state that holds a container id when it is reached
\* (its id is taken, so a second visit issues nothing)
RECURSIVE RmLog(_, _)
RmLog(s, names) ==
    IF names = <<>> THEN <<>>
    ELSE LET n == Head(names)
             id == IF n \in DOMAIN s THEN s[n].active_container_id ELSE None
             s1 == IF n \in DOMAIN s
                   THEN [s EXCEPT ![n].active_container_id = None]
                   ELSE s
         IN (IF id # None THEN <<Cmd("rm", n, id)>> ELSE <<>>)
                \o RmLog(s1, Tail(names))

\* the names of the set in the order the map iterates over them
KnownNames(s) == SelectSeq(NameOrder, LAMBDA n : n \in DOMAIN s)

\* the commands of terminate_all: the removals, then `docker network rm`
\* when the network is recorded as active
TerminateAllLog(s, na) ==
    RmLog(s, KnownNames(s))
        \o (IF na THEN <<Cmd("network_rm", "", None)>> ELSE <<>>)

\* a choice is only made for a runner whose child is killed while it runs
NeedsChoice(state) == is_active(state) /\ state.run_state.child = "alive"
TermChoiceFns(s, ns) ==
    {f \in [Names -> TermChoices] :
        \A n \in Names :
            \/ n \in ns /\ n \in DOMAIN s /\ NeedsChoice(s[n])
            \/ f[n] = NoResult}

\* ------------------------------------------------------------- environment
ContainerExit ==
    \E id \in Ids, r \in ExitResults :
        /\ ~Returned
        /\ ext[id] = "running"
        /\ ext' = [ext EXCEPT ![id] = "exited"]
        \* the runner attached to the container sees its child end with r
        /\ set' = [n \in DOMAIN set |->
                     IF /\ is_active(set[n])
                        /\ set[n].run_state.child = "alive"
                        /\ set[n].active_container_id = id
                     THEN [set[n] EXCEPT !.run_state = Active("exited", r)]
                     ELSE set[n]]
        /\ UNCHANGED <<others, conf, network_active, CTRLC_ISSUED, w, ret>>

\* the signal handler sets the flag while no wait is in progress. The engine
\* reads the flag at the head of the wait loop only, so a signal that arrives
\* during a wait is taken at the read that first sees it (WaitCancelled), and
\* one that arrives during the sleep before a teardown after the call returned
CtrlC ==
    /\ ~Returned
    /\ w.pc = "idle"
    /\ ~CTRLC_ISSUED
    /\ CTRLC_ISSUED' = TRUE
    /\ UNCHANGED <<others, conf, set, network_active, ext, w, ret>>

\* the caller takes the value a call returned and goes on
CallerContinues ==
    /\ Returned
    /\ ret' = NoCall
    /\ UNCHANGED <<others, conf, set, network_active, CTRLC_ISSUED, ext, w>>

\* ------------------------------------------------------------ add_container
\* the two checks of add_container, for the container c named n
AddContainerOccupiedOnly(c, n) == n \in DOMAIN set

AddContainerFails(c, n) ==
    \/ conf.dockerfile_write_dir = "None" /\ c.dockerfile = "Contents"
    \/ n \in DOMAIN set

\* add_container of a container drawn from `containers` under a name drawn
\* from `names`
AddContainerIn(names, containers) ==
    \E n \in names, c \in containers :
        /\ Ready
        /\ IF AddContainerFails(c, n)
           THEN /\ ret' = RetOf("add_container", <<n>>, "Err", {}, <<>>, <<>>,
                                c, FALSE)
                /\ UNCHANGED <<set, conf>>
           ELSE /\ set' = [m \in DOMAIN set \cup {n} |->
                              IF m = n THEN NewState ELSE set[m]]
                /\ conf' = [conf EXCEPT !.container =
                               [m \in DOMAIN set \cup {n} |->
                                  IF m = n THEN c ELSE @[m]]]
                /\ ret' = RetOf("add_container", <<n>>, "Ok", {}, <<>>, <<>>,
                                c, FALSE)
        /\ UNCHANGED <<others, network_active, CTRLC_ISSUED, ext, w>>

AddContainerOf(containers) == AddContainerIn(Names, containers)

AddContainer == AddContainerOf(PlainContainers)

\* ------------------------------------------------------------- add_common_*
\* Vec::extend: the items are appended in order
ExtendReversed(list, items) ==
    list \o [k \in 1..Len(items) |-> items[Len(items) + 1 - k]]

Extend(list, items) == list \o items

\* the lists of the containers stay within MaxItems
Fits(field, items) ==
    \A n \in DOMAIN conf.container :
        Len(conf.container[n][field]) + Len(items) <= MaxItems

AddCommonVolumes ==
    \E volumes \in ItemSeqs :
        /\ Ready
        /\ Fits("volumes", volumes)
        /\ conf' = [conf EXCEPT !.container =
                       [n \in DOMAIN set |->
                          [@[n] EXCEPT !.volumes = Extend(@, volumes)]]]
        /\ ret' = RetOf("add_common_volumes", <<>>, "Ok", {}, <<>>, <<>>,
                        Container("none", volumes, <<>>), FALSE)
        /\ UNCHANGED <<others, set, network_active, CTRLC_ISSUED, ext, w>>

AddCommonEntrypointArgs ==
    \E args \in ItemSeqs :
        /\ Ready
        /\ Fits("entrypoint_args", args)
        /\ conf' = [conf EXCEPT !.container =
                       [n \in DOMAIN set |->
                          [@[n] EXCEPT !.entrypoint_args = Extend(@, args)]]]
        /\ ret' = RetOf("add_common_entrypoint_args", <<>>, "Ok", {}, <<>>,
                        <<>>, Container("none", <<>>, args), FALSE)
        /\ UNCHANGED <<others, set, network_active, CTRLC_ISSUED, ext, w>>

\* ---------------------------------------------------------------- terminate
Terminate ==
    /\ Ready
    /\ \E names \in NameSeqs : \E tch \in TermChoiceFns(set, Range(names)) :
        /\ set' = TerminateEach(set, names, tch)
        /\ ext' = RmF(ext, set, Range(names) \cap DOMAIN set)
        /\ ret' = Ret("terminate", names, "Ok", {}, <<>>, RmLog(set, names))
        /\ UNCHANGED <<others, conf, network_active, CTRLC_ISSUED, w>>

TerminateContainers ==
    /\ Ready
    /\ \E tch \in TermChoiceFns(set, Names) :
        /\ set' = TerminateNames(set, ext, DOMAIN set, tch)
        /\ ext' = RmF(ext, set, DOMAIN set)
        /\ ret' = Ret("terminate_containers", <<>>, "Ok", {}, <<>>,
                      RmLog(set, KnownNames(set)))
        /\ UNCHANGED <<others, conf, network_active, CTRLC_ISSUED, w>>

\* terminate_all as a state transformer: the new set, docker state and flag
TerminateAllKeepsNetwork(s, e, na, tch) ==
    [set |-> TerminateNames(s, e, DOMAIN s, tch),
     ext |-> RmF(e, s, DOMAIN s),
     network_active |-> na]

TerminateAllOf(s, e, na, tch) ==
    [set |-> TerminateNames(s, e, DOMAIN s, tch),
     ext |-> RmF(e, s, DOMAIN s),
     network_active |-> FALSE]

TerminateAll ==
    /\ Ready
    /\ \E tch \in TermChoiceFns(set, Names) :
        LET t == TerminateAllOf(set, ext, network_active, tch) IN
        /\ set' = t.set
        /\ ext' = t.ext
        /\ network_active' = t.network_active
        /\ ret' = Ret("terminate_all", <<>>, "Ok", {}, <<>>,
                      TerminateAllLog(set, network_active))
        /\ UNCHANGED <<others, conf, CTRLC_ISSUED, w>>

\* ---------------------------------------------------------------------- run
active_names ==
    SelectSeq(NameOrder, LAMBDA n : n \in DOMAIN set /\ is_active(set[n]))
inactive_names ==
    SelectSeq(NameOrder, LAMBDA n : n \in DOMAIN set /\ ~is_active(set[n]))

\* a precheck that lets a repeated name through
RunPrecheckActiveOnly(names) ==
    \A n \in Range(names) : n \in DOMAIN set /\ ~is_active(set[n])

\* first loop of run_internal: no duplicate, every name known and not active
RunPrecheck(names) ==
    /\ NoDup(names)
    /\ \A n \in Range(names) : n \in DOMAIN set /\ ~is_active(set[n])

\* how a run that passed the name precheck can go on: a path or directory
\* cannot be acquired, `docker network create` fails, `docker create` fails
\* for names[at], `docker start` fails for names[at], or everything succeeds
RunOutcomes(names) ==
    {[kind |-> "acquire", at |-> 0], [kind |-> "ok", at |-> 0]}
        \cup (IF network_active THEN {} ELSE {[kind |-> "network", at |-> 0]})
        \cup [kind : {"create", "start"}, at : 1..Len(names)]

\* number of names whose `docker create` succeeded
NumCreated(names, o) == IF o.kind = "create" THEN o.at - 1 ELSE Len(names)
\* number of names whose `docker start` succeeded
NumStarted(names, o) == IF o.kind = "start" THEN o.at - 1 ELSE Len(names)

First(names, c) == {names[k] : k \in 1..c}
\* the ids `docker create` can hand out, lowest first: ids are opaque to the
\* engine, so the id of a removed container stands for a fresh one
FreeIds(e) ==
    SelectSeq([k \in 1..MaxIds |-> k], LAMBDA id : e[id] = "none")
IdFor(names, n, e) == FreeIds(e)[IndexOf(names, n)]

\* a creation loop that does not store the ids
CreatedSetNoId(s, names, c, e) == s

\* the creation loop: names[1..c] get the first c free ids
CreatedSet(s, names, c, e) ==
    [n \in DOMAIN s |->
        IF n \in First(names, c)
        THEN [s[n] EXCEPT !.active_container_id = IdFor(names, n, e)]
        ELSE s[n]]
CreatedExt(e, c) ==
    [id \in Ids |->
        IF \E k \in 1..c : FreeIds(e)[k] = id THEN "created" ELSE e[id]]

\* the start loop: names[1..k] become Active with a fresh runner
StartedSetButLast(s, names, k) ==
    [n \in DOMAIN s |->
        IF n \in First(names, k - 1)
        THEN [s[n] EXCEPT !.run_state = Active("alive", NoResult)]
        ELSE s[n]]

StartedSet(s, names, k) ==
    [n \in DOMAIN s |->
        IF n \in First(names, k)
        THEN [s[n] EXCEPT !.run_state = Active("alive", NoResult)]
        ELSE s[n]]
StartedExt(e, s, names, k) ==
    [id \in Ids |->
        IF \E n \in First(names, k) : s[n].active_container_id = id
        THEN "running" ELSE e[id]]

\* no cleanup at all
CreateFailCleanupNone(names, at) == {}

\* cleanup after `docker create` failed for names[at]
CreateFailCleanup(names, at) == First(names, at - 1)
\* cleanup after `docker start` failed for names[at]
StartFailCleanupBefore(names, at) == First(names, at - 1)

\* cleanup of every container of the set after a failed start
StartFailCleanupAll(names, at) == DOMAIN set

StartFailCleanup(names, at) == Range(names)

NoChoice == [n \in Names |-> NoResult]

\* run_internal creating the network before the paths and directories are
\* acquired
NetworkCreateFirst(o, na) == ~na

\* run_internal creating the network whether or not it is recorded as active
NetworkCreateAlways(o, na) == o.kind # "acquire"

\* `docker network create` is issued once the paths and directories have
\* been acquired, when the network is not recorded as active
NetworkCreateIssued(o, na) == ~na /\ o.kind # "acquire"

\* run_internal starting every container right after its own create
RunLogStartEarly(names, o, na, sC) ==
    LET nc == IF o.kind = "create" THEN o.at
              ELSE IF o.kind \in {"start", "ok"} THEN Len(names) ELSE 0
        ns == IF o.kind = "start" THEN o.at
              ELSE IF o.kind = "ok" THEN Len(names) ELSE 0
        create(i) == Cmd("create", names[i],
                         IF o.kind = "create" /\ i = o.at THEN None
                         ELSE sC[names[i]].active_container_id)
        start(i) == Cmd("start", names[i], sC[names[i]].active_container_id)
    IN (IF ~na /\ o.kind # "acquire"
        THEN <<Cmd("network_create", "", None)>> ELSE <<>>)
       \o [p \in 1..(nc + ns) |->
               IF p > 2 * ns THEN create(p - ns)
               ELSE IF p % 2 = 1 THEN create((p + 1) \div 2)
               ELSE start(p \div 2)]

\* the commands run_internal issues before any cleanup, for outcome o:
\* `docker network create` when the network is not recorded as active, one
\* `docker create` per name up to and including a failing one (which yields
\* no id), then one `docker start` per name up to and including a failing one
RunLog(names, o, na, sC) ==
    LET nc == IF o.kind = "create" THEN o.at
              ELSE IF o.kind \in {"start", "ok"} THEN Len(names) ELSE 0
        ns == IF o.kind = "start" THEN o.at
              ELSE IF o.kind = "ok" THEN Len(names) ELSE 0
    IN (IF NetworkCreateIssued(o, na)
        THEN <<Cmd("network_create", "", None)>> ELSE <<>>)
       \o [i \in 1..nc |->
               Cmd("create", names[i],
                   IF o.kind = "create" /\ i = o.at THEN None
                   ELSE sC[names[i]].active_container_id)]
       \o [i \in 1..ns |-> Cmd("start", names[i],
                                sC[names[i]].active_container_id)]

RunBody(op, names) ==
    /\ Ready
    /\ IF ~RunPrecheck(names)
       THEN /\ ret' = Ret(op, names, "ErrValidation", {}, <<>>, <<>>)
            /\ UNCHANGED <<set, network_active, ext>>
       ELSE \E o \in RunOutcomes(names) :
            LET c == NumCreated(names, o)
                k == NumStarted(names, o)
                setC == CreatedSet(set, names, c, ext)
                extC == CreatedExt(ext, c)
                setS == StartedSet(setC, names, k)
                extS == StartedExt(extC, setC, names, k)
            IN
            CASE o.kind = "acquire" ->
                    /\ ret' = Ret(op, names, "ErrAcquire", {}, <<>>,
                                 RunLog(names, o, network_active, setC))
                    /\ UNCHANGED <<set, network_active, ext>>
              [] o.kind = "network" ->
                    /\ ret' = Ret(op, names, "ErrNetwork", {}, <<>>, RunLog(names, o, network_active, setC))
                    /\ UNCHANGED <<set, network_active, ext>>
              [] o.kind = "create" ->
                    /\ c <= Len(FreeIds(ext))
                    /\ network_active' = TRUE
                    /\ set' = TerminateNames(setC, extC,
                                  CreateFailCleanup(names, o.at), NoChoice)
                    /\ ext' = RmF(extC, setC, CreateFailCleanup(names, o.at))
                    /\ ret' = Ret(op, names, "ErrCreate", {}, <<>>,
                                 RunLog(names, o, network_active, setC)
                                   \o RmLog(setC, SubSeq(names, 1, o.at - 1)))
              [] o.kind = "start" ->
                    /\ c <= Len(FreeIds(ext))
                    /\ network_active' = TRUE
                    /\ \E tch \in TermChoiceFns(setS, Range(names)) :
                        set' = TerminateNames(setS, extS,
                                   StartFailCleanup(names, o.at), tch)
                    /\ ext' = RmF(extS, setS, StartFailCleanup(names, o.at))
                    /\ ret' = Ret(op, names, "ErrStart", {}, <<>>,
                                 RunLog(names, o, network_active, setC)
                                   \o RmLog(setS, names))
              [] o.kind = "ok" ->
                    /\ c <= Len(FreeIds(ext))
                    /\ network_active' = TRUE
                    /\ set' = setS
                    /\ ext' = extS
                    /\ ret' = Ret(op, names, "Ok", {}, <<>>, RunLog(names, o, network_active, setC))
    /\ UNCHANGED <<others, conf, CTRLC_ISSUED, w>>

Run == \E names \in NameSeqs : RunBody("run", names)

RunAll == RunBody("run_all", inactive_names)

\* -------------------------------------------------------- error_compilation
\* the contributions error_compilation adds for one container
Contributions(n, state) ==
    LET comres == state.run_state.result
        stack == comres.out.stack /\ ~comres.out.nrc
        panic == comres.out.panic
        encountered == stack \/ panic
    IN IF state.run_state.tag = "PostActive" /\ ~successful(comres)
       THEN (IF stack THEN {<<n, "stack">>} ELSE {})
            \cup (IF panic THEN {<<n, "panic">>} ELSE {})
            \cup (IF ~encountered /\ ~successful_or_terminated(comres)
                  THEN {<<n, "generic">>} ELSE {})
       ELSE {}

error_compilation(s) == UNION {Contributions(n, s[n]) : n \in DOMAIN s}

\* -------------------------------------------------------- wait_with_timeout
\* a precheck that looks up the names only
WaitPrecheckKnownOnly(names) == \A n \in Range(names) : n \in DOMAIN set

\* the checks before the polling loop: every name known and Active
WaitPrecheck(names) ==
    \A n \in Range(names) : n \in DOMAIN set /\ is_active(set[n])

\* what a zero-duration call finds when it is made: every runner of names
\* already holds the result of its ended child, and all of them succeeded
DoneAtCall(names) ==
    \A n \in Range(names) :
        set[n].run_state.child = "exited"
OkAtCall(names) ==
    \A n \in Range(names) : successful(set[n].run_state.result)

\* wait_with_timeout granting no extra round
WaitFrameNoExtraRound(names, tof, duration) ==
    [pc |-> "loop", names |-> names,
     polls |-> [k \in 1..Len(names) |-> [early |-> FALSE, late |-> FALSE]],
     i |-> 0,
     skip_fail |-> FALSE, tof |-> tof,
     duration |-> duration, elapsed |-> 0,
     doneAtCall |-> duration = 0 /\ DoneAtCall(names),
     okAtCall |-> duration = 0 /\ OkAtCall(names),
     trigger |-> "none"]

\* the frame when the loop is entered: `start = Instant::now()`,
\* `skip_fail = true`, `i = 0`, and no name of the work list polled yet
WaitFrame(names, tof, duration) ==
    [pc |-> "loop", names |-> names,
     polls |-> [k \in 1..Len(names) |-> [early |-> FALSE, late |-> FALSE]],
     i |-> 0,
     skip_fail |-> TRUE, tof |-> tof,
     duration |-> duration, elapsed |-> 0,
     doneAtCall |-> duration = 0 /\ DoneAtCall(names),
     okAtCall |-> duration = 0 /\ OkAtCall(names),
     trigger |-> "none"]

WaitCall(op, names) ==
    \E tof \in BOOLEAN, duration \in 0..MaxDuration :
        /\ Ready
        /\ IF ~WaitPrecheck(names)
           THEN /\ ret' = RetOf(op, names, "ErrValidation", {}, names, <<>>,
                                NoGiven, tof)
                /\ UNCHANGED w
           ELSE /\ w' = WaitFrame(names, tof, duration)
                /\ ret' = RetOf(op, names, "Pending", {}, <<>>, <<>>,
                                NoGiven, tof)
        /\ UNCHANGED <<others, conf, set, network_active, CTRLC_ISSUED, ext>>

WaitWithTimeout == \E names \in NameSeqs : WaitCall("wait_with_timeout", names)

WaitWithTimeoutAll == WaitCall("wait_with_timeout_all", active_names)

\* a wait that hands back the list it was given
WaitRetWholeList(res, contrib, left, cmds) ==
    RetOf(ret.op, ret.arg, res, contrib, ret.arg, cmds, NoGiven,
          ret.terminate_on_failure)

\* what a wait that has entered its loop returns: the result, and what is
\* left of names
WaitRet(res, contrib, left, cmds) ==
    RetOf(ret.op, ret.arg, res, contrib, left, cmds, NoGiven,
          ret.terminate_on_failure)

\* `if CTRLC_ISSUED.load(..)` at the head of the loop finds the flag set: it
\* was set before, or the signal arrived since the last read
WaitCancelled ==
    /\ w.pc = "loop"
    /\ CTRLC_ISSUED' = TRUE
    /\ \E tch \in TermChoiceFns(set, Names) :
        LET t == TerminateAllOf(set, ext, network_active, tch) IN
        /\ set' = t.set
        /\ ext' = t.ext
        /\ network_active' = t.network_active
    /\ w' = Idle
    /\ ret' = WaitRet("Cancelled", {}, w.names,
                      TerminateAllLog(set, network_active))
    /\ UNCHANGED <<others, conf>>

\* `if names.is_empty() { break }`
WaitDone ==
    /\ w.pc = "loop"
    /\ ~CTRLC_ISSUED
    /\ w.names = <<>>
    /\ w' = Idle
    /\ ret' = WaitRet("Ok", {}, w.names, <<>>)
    /\ UNCHANGED <<others, conf, set, network_active, CTRLC_ISSUED, ext>>

PassEnd == w.i >= Len(w.names)
\* `elapsed > duration` as the end of a pass can find it: true once the
\* sleeps alone exceed the budget, either way before (the polls take time)
OverBudget == IF w.elapsed > w.duration THEN {TRUE} ELSE BOOLEAN

\* `if terminate_on_failure` before the timeout error is returned
TimeoutKeepsRunning(tof) == FALSE

\* a timeout that tears down whatever the flag says
TimeoutTerminatesAlways(tof) == TRUE

TimeoutTerminates(tof) == tof

\* the end of a pass after the budget and the extra round are used up
WaitTimeout ==
    /\ w.pc = "loop"
    /\ ~CTRLC_ISSUED
    /\ w.names # <<>>
    /\ PassEnd
    /\ ~w.skip_fail
    /\ TRUE \in OverBudget
    /\ IF TimeoutTerminates(w.tof)
       THEN /\ w' = [w EXCEPT !.pc = "sleep_timeout", !.i = 0]
            /\ ret' = Pending
       ELSE /\ w' = Idle
            /\ ret' = WaitRet("Timeout", {}, w.names, <<>>)
    /\ UNCHANGED <<others, conf, set, network_active, CTRLC_ISSUED, ext>>

\* the frame after the `if i >= names.len()` block, when it does not return:
\* over budget the extra round is used up, else the loop sleeps 256 ms
AfterPassEnd(over) ==
    IF ~PassEnd THEN w
    ELSE IF over
         THEN [w EXCEPT !.i = 0, !.skip_fail = FALSE,
                        !.elapsed = w.duration + 1]
         ELSE [w EXCEPT !.i = 0, !.elapsed = w.elapsed + 1]

\* what the zero-duration poll of a runner reports: a live child is still
\* running or the wait on it fails, an exited child is finished, and a
\* runner that was terminated has no child left to wait for
PollResult(rs) ==
    CASE rs.child = "alive" -> {"timeout", "error"}
      [] rs.child = "exited" -> {"finished"}
      [] OTHER -> {"error"}

\* `if terminate_on_failure && err` for the result of a finished runner
AbortsAlways(tof, comres) == ~successful(comres)

AbortsNever(tof, comres) == FALSE

AbortsOnFailure(tof, comres) == tof /\ ~successful(comres)

\* one iteration of the loop that reaches the poll of names[i]
WaitPoll ==
    /\ w.pc = "loop"
    /\ ~CTRLC_ISSUED
    /\ w.names # <<>>
    /\ \E over \in (IF PassEnd THEN OverBudget ELSE {FALSE}) :
       /\ ~(PassEnd /\ over /\ ~w.skip_fail)
       /\ LET w0 == AfterPassEnd(over)
              name == w0.names[w0.i + 1]
              state == set[name]
              rs == state.run_state
              \* the frame once names[i] has been polled: the poll is noted
              \* as one of the extra round when skip_fail is used up, else as
              \* one of an earlier pass
              w1 == [w0 EXCEPT !.polls[w0.i + 1] =
                        IF w0.skip_fail THEN [@ EXCEPT !.early = TRUE]
                        ELSE [@ EXCEPT !.late = TRUE]]
          IN
          IF ~is_active(state)
          THEN /\ w' = w0
               /\ ret' = Pending
               /\ UNCHANGED set
          ELSE \E p \in PollResult(rs) :
               CASE p = "timeout" ->
                       /\ w' = [w1 EXCEPT !.i = w0.i + 1]
                       /\ ret' = Pending
                       /\ UNCHANGED set
                 [] p = "finished" ->
                       IF AbortsOnFailure(w0.tof, rs.result)
                       THEN \* the result is taken out of the runner and dropped
                            /\ set' = [set EXCEPT ![name].run_state =
                                           Active("exited", NoResult)]
                            /\ w' = [w1 EXCEPT !.pc = "sleep_fail",
                                             !.trigger = name]
                            /\ ret' = Pending
                       ELSE /\ set' = [set EXCEPT ![name].run_state =
                                           PostActive(rs.result)]
                            /\ w' = [w1 EXCEPT
                                      !.names = Remove(w0.names, w0.i + 1),
                                      !.polls = Remove(w1.polls, w0.i + 1)]
                            /\ ret' = Pending
                 [] p = "error" ->
                       \E ch \in (IF rs.child = "alive" THEN TermChoices
                               ELSE {rs.result}) :
                       LET s1 == [set EXCEPT ![name].run_state = Active("killed", ch)]
                       IN /\ set' = s1
                          /\ IF w0.tof
                             THEN /\ w' = [w1 EXCEPT !.pc = "sleep_runner_err"]
                                  /\ ret' = Pending
                             ELSE /\ w' = Idle
                                  /\ ret' = WaitRet("Aggregate",
                                                error_compilation(s1), w0.names,
                                                <<>>)
    /\ UNCHANGED <<others, conf, network_active, CTRLC_ISSUED, ext>>

\* after the 300 ms sleep: terminate_all, then the error is returned
WaitTeardown ==
    /\ w.pc \in {"sleep_timeout", "sleep_fail", "sleep_runner_err"}
    /\ \E tch \in TermChoiceFns(set, Names) :
        LET t == TerminateAllOf(set, ext, network_active, tch) IN
        /\ set' = t.set
        /\ ext' = t.ext
        /\ network_active' = t.network_active
        /\ ret' = IF w.pc = "sleep_timeout"
                  THEN WaitRet("Timeout", {}, w.names,
                               TerminateAllLog(set, network_active))
                  ELSE WaitRet("Aggregate", error_compilation(t.set), w.names,
                               TerminateAllLog(set, network_active))
    /\ w' = Idle
    /\ UNCHANGED <<others, conf, CTRLC_ISSUED>>

\* ------------------------------------------------------------------ claims
IsRun(r) == r.op \in {"run", "run_all"}
IsWait(r) == r.op \in {"wait_with_timeout", "wait_with_timeout_all"}
Clean(state) == ~is_active(state) /\ state.active_container_id = None
AllClean(s) == \A n \in DOMAIN s : Clean(s[n])
NoneLive(e) == \A id \in Ids : ~Live(e[id])
\* a step of the engine (the environment changes neither w nor ret); in a
\* step of the wait loop CTRLC_ISSUED' is the flag as the iteration reads it
EngineStep == w' # w \/ ret' # ret
WaitReturns == w.pc # "idle" /\ w'.pc = "idle"

\* C1: when run(names) returns Ok, every name of names is Active and has a
\* recorded container id.
C1_RunOkAllActive ==
    (IsRun(ret) /\ ret.res = "Ok") =>
        \A n \in ret.names :
            /\ n \in DOMAIN set
            /\ is_active(set[n])
            /\ set[n].active_container_id # None

C1_Witness == ret.op = "run" /\ ret.res = "Ok" /\ Cardinality(ret.names) = 2

\* C2 as stated: when run(names) returns Err, no container named in names is
\* Active and none has a container id, whatever the state and the names.
C2_RunErrNoneActive ==
    (IsRun(ret) /\ ret.res # "Ok") =>
        \A n \in ret.names \cap DOMAIN set : Clean(set[n])

\* C2 amended: when run(names) returns Err, a name of names is Active on
\* return only if it was Active before the call and the call failed in the
\* name precheck; a name holds a container id on return only if it held that
\* same id before the call; every container the call created has been
\* removed; and after a failed create or start no name is Active.
C2_RunErrCleanup ==
    [][(IsRun(ret') /\ ret'.res # "Ok") =>
        /\ \A n \in ret'.names \cap DOMAIN set :
            /\ is_active(set'[n]) =>
                   (is_active(set[n]) /\ ret'.res = "ErrValidation")
            /\ set'[n].active_container_id
                   \in {None, set[n].active_container_id}
        /\ \A id \in Ids : ~Live(ext[id]) => ~Live(ext'[id])
        /\ ret'.res \in {"ErrCreate", "ErrStart"} =>
               \A n \in ret'.names : ~is_active(set'[n])]_vars

C2_Witness ==
    /\ ret.op = "run" /\ ret.res = "ErrStart" /\ Cardinality(ret.names) = 2
    /\ \E n \in ret.names :
           set[n].run_state.tag = "PostActive" /\ set[n].active_container_id = None

\* C3: after terminate_all returns no container is Active, none has a
\* container id, and network_active is false.
C3_TerminateAllClean ==
    ret.op = "terminate_all" => (AllClean(set) /\ ~network_active)

C3_Witness ==
    /\ ret.op = "terminate_all"
    /\ \E n \in DOMAIN set :
           /\ set[n].run_state.tag = "PostActive"
           /\ set[n].run_state.result.status = "term"

C6_Cancellation ==
    [][(w.pc = "loop" /\ CTRLC_ISSUED' /\ EngineStep) =>
        /\ w'.pc = "idle"
        /\ ret'.res = "Cancelled"
        /\ AllClean(set')
        /\ ~network_active']_vars

C6_Witness ==
    /\ IsWait(ret) /\ ret.res = "Cancelled"
    /\ \E n \in DOMAIN set \ ret.names :
           set[n].run_state.tag = "PostActive"

\* C7: when a pass of wait_with_timeout(names, true, d) ends with names left
\* after the budget and the extra round, the call tears everything down and
\* returns the Timeout error: no container is Active or has an id, no
\* container is left running and network_active is false.
C7_TimeoutTerminates ==
    [][/\ (/\ w.pc = "loop" /\ ~CTRLC_ISSUED' /\ w.names # <<>>
           /\ PassEnd /\ ~w.skip_fail /\ w.tof /\ EngineStep)
          => w'.pc = "sleep_timeout"
       /\ (w.pc = "sleep_timeout" /\ EngineStep) =>
            /\ w'.pc = "idle"
            /\ ret'.res = "Timeout"
            /\ AllClean(set') /\ NoneLive(ext') /\ ~network_active']_vars

C7_Witness ==
    /\ IsWait(ret) /\ ret.res = "Timeout" /\ Len(ret.left) = 2
    /\ AllClean(set) /\ ~network_active

\* the name the next poll of the loop asks about
Polled == w.names[IF PassEnd THEN 1 ELSE w.i + 1]
Polls ==
    /\ w.pc = "loop" /\ ~CTRLC_ISSUED' /\ w.names # <<>>
    /\ ~(PassEnd /\ ~w.skip_fail)
    /\ EngineStep

\* C8: when wait_with_timeout with terminate_on_failure finds that a container
\* of names exited unsuccessfully, it tears everything down and returns an
\* error: no container is Active or has an id and network_active is false.
C8_FailureTerminates ==
    [][/\ (/\ Polls /\ w.tof
           /\ set[Polled].run_state.tag = "Active"
           /\ set[Polled].run_state.child = "exited"
           /\ set[Polled].run_state.result.status = "fail")
          => (w'.pc = "sleep_fail" /\ w'.trigger = Polled)
       /\ (w.pc = "sleep_fail" /\ EngineStep) =>
            /\ w'.pc = "idle"
            /\ ret'.res = "Aggregate"
            /\ AllClean(set') /\ ~network_active']_vars

C8_Witness ==
    /\ IsWait(ret) /\ ret.res = "Aggregate" /\ ret.contrib # {}
    /\ AllClean(set) /\ ~network_active

\* a container that has exited unsuccessfully by itself
ExitedUnsuccessfully(n) ==
    \/ n = w.trigger
    \/ /\ set[n].run_state.tag \in {"Active", "PostActive"}
       /\ set[n].run_state.result.status = "fail"

\* C9: the aggregate error returned after a failure holds a contribution for
\* every container that exited unsuccessfully, the one whose failure started
\* the teardown included.
C9_AggregateComplete ==
    [][(w.pc = "sleep_fail" /\ WaitReturns) =>
        \A n \in DOMAIN set :
            ExitedUnsuccessfully(n) =>
                \E k \in {"stack", "panic", "generic"} : <<n, k>> \in ret'.contrib]_vars

\* C10: calling terminate() twice on a ContainerState leaves run_state and
\* active_container_id as one call leaves them.
C10_TerminateIdempotent ==
    \A n \in DOMAIN set :
        \A ch1, ch2 \in TermChoices :
            TerminateState(TerminateState(set[n], ch1), ch2)
                = TerminateState(set[n], ch1)

\* a call of operation op is made in this step and returns in it
Calls(op) == ret.op = "none" /\ ret'.op = op

\* C11: terminate_all on an engine that terminate_all has already cleaned (no
\* container Active, no container id, network not active, as no run happened
\* since) issues no docker command and leaves every run_state, every
\* active_container_id and network_active unchanged.
C11_TerminateAllNoOp ==
    [][(Calls("terminate_all") /\ AllClean(set) /\ ~network_active) =>
          /\ ret'.cmds = <<>>
          /\ set' = set
          /\ network_active' = network_active]_vars

\* C12: a run that fails in pre-validation (a duplicate, unknown or active
\* name, or a path or directory that cannot be acquired) has issued no docker
\* command, and network_active, every run_state, every active_container_id
\* and the containers docker holds are as before the call.
C12_PrevalidationNoEffects ==
    [][(ret.op = "none" /\ IsRun(ret')
            /\ ret'.res \in {"ErrValidation", "ErrAcquire"}) =>
          /\ ret'.cmds = <<>>
          /\ set' = set
          /\ network_active' = network_active
          /\ ext' = ext]_vars

C12_Witness ==
    /\ IsRun(ret) /\ ret.res = "ErrAcquire"
    /\ ret.names # {} /\ ~network_active

\* C13 as stated: run(names) returns a validation error whenever names holds
\* a duplicate, a name that is not in the set, or a name whose container is
\* not PreActive.
C13_RunRejectsNotPreActive ==
    [][(ret.op = "none" /\ IsRun(ret')
            /\ \/ ~NoDup(ret'.arg)
               \/ \E n \in ret'.names :
                     \/ n \notin DOMAIN set
                     \/ set[n].run_state.tag # "PreActive") =>
          ret'.res = "ErrValidation"]_vars

\* C13 as the code has it: run(names) returns a validation error, having
\* issued no command and changed nothing, whenever names holds a duplicate,
\* a name that is not in the set, or a name whose container is Active; a
\* PostActive container is accepted like a PreActive one.
C13_RunRejectsActive ==
    [][(ret.op = "none" /\ IsRun(ret')) =>
          /\ (\/ ~NoDup(ret'.arg)
              \/ \E n \in ret'.names :
                    n \notin DOMAIN set \/ is_active(set[n]))
                <=> ret'.res = "ErrValidation"
          /\ ret'.res = "ErrValidation" =>
                /\ ret'.cmds = <<>>
                /\ set' = set /\ ext' = ext
                /\ network_active' = network_active]_vars

C13_Witness ==
    /\ IsRun(ret) /\ ret.res = "ErrValidation"
    /\ \E n \in ret.names : n \in DOMAIN set /\ is_active(set[n])

\* C14: add_container fails if the name is already in the set or if the
\* container has Dockerfile::Contents while dockerfile_write_dir is None; a
\* failed call leaves the set as it was (every container keeps its spec and
\* its state); a successful call adds exactly that name, PreActive and without
\* container id, and changes no other container.
C14_AddContainer ==
    [][Calls("add_container") =>
          LET n == ret'.arg[1]
              c == ret'.given
          IN /\ (\/ n \in DOMAIN set
                 \/ /\ c.dockerfile = "Contents"
                    /\ conf.dockerfile_write_dir = "None")
                   => ret'.res = "Err"
             /\ ret'.res = "Err" => (set' = set /\ conf' = conf)
             /\ ret'.res = "Ok" =>
                   /\ n \notin DOMAIN set
                   /\ DOMAIN set' = DOMAIN set \cup {n}
                   /\ set'[n].run_state = PreActive
                   /\ set'[n].active_container_id = None
                   /\ conf'.container[n] = c
                   /\ \A m \in DOMAIN set :
                         /\ set'[m] = set[m]
                         /\ conf'.container[m] = conf.container[m]]_vars

C14_Witness ==
    /\ ret.op = "add_container" /\ ret.res = "Err"
    /\ ret.given.dockerfile = "Contents"
    /\ ret.arg[1] \notin DOMAIN set
    /\ \E m \in DOMAIN set : is_active(set[m])

\* C15: add_common_volumes and add_common_entrypoint_args append the given
\* items, in order, to the corresponding list of exactly the containers in
\* the set at the call and change no run state, container id or
\* network_active; a container added afterwards has the lists of its own
\* spec only.
C15_AddCommon ==
    [][/\ (Calls("add_common_volumes") \/ Calls("add_common_entrypoint_args")) =>
            /\ set' = set /\ ext' = ext
            /\ network_active' = network_active
            /\ ret'.cmds = <<>>
            /\ DOMAIN conf'.container = DOMAIN set
            /\ \A n \in DOMAIN set :
                  LET old == conf.container[n]
                      new == conf'.container[n]
                  IN /\ new.dockerfile = old.dockerfile
                     /\ new.volumes = old.volumes \o ret'.given.volumes
                     /\ new.entrypoint_args
                           = old.entrypoint_args \o ret'.given.entrypoint_args
       /\ (Calls("add_container") /\ ret'.res = "Ok") =>
            /\ conf'.container[ret'.arg[1]].volumes = ret'.given.volumes
            /\ conf'.container[ret'.arg[1]].entrypoint_args
                  = ret'.given.entrypoint_args]_vars

\* common volumes were given in two calls, to a running container that has
\* both and to one added in between that has only the later ones
C15_Witness ==
    /\ ret.op = "add_common_volumes"
    /\ ret.given.volumes = <<"x", "y">>
    /\ DOMAIN set = {"a", "b"}
    /\ is_active(set["a"])
    /\ conf.container["a"].volumes = <<"x", "x", "y">>
    /\ conf.container["b"].volumes = <<"x", "y">>

\* C16: a wait_with_timeout called with a name that is not in the engine or
\* whose container is not Active returns an error at once: it does not enter
\* the polling loop, issues no command, and leaves the names list, every
\* run_state, every container id and network_active as they were.
C16_WaitPrevalidation ==
    [][(ret.op = "none" /\ IsWait(ret')
            /\ \E n \in ret'.names :
                  n \notin DOMAIN set \/ ~is_active(set[n])) =>
          /\ ret'.res = "ErrValidation"
          /\ w' = Idle
          /\ ret'.left = ret'.arg
          /\ ret'.cmds = <<>>
          /\ set' = set /\ ext' = ext
          /\ network_active' = network_active]_vars

\* rejected for a PostActive name while another name of the list is Active
C16_Witness ==
    /\ IsWait(ret) /\ ret.res = "ErrValidation"
    /\ \E n, m \in ret.names \cap DOMAIN set :
          /\ set[n].run_state.tag = "PostActive"
          /\ is_active(set[m])

\* C17: when wait_with_timeout with terminate_on_failure (or
\* wait_with_timeout_all with it) returns Ok, every container that was in
\* names at the call is PostActive and holds a successful result.
C17_WaitOkAllSuccessful ==
    [][(WaitReturns /\ ret'.res = "Ok" /\ ret'.terminate_on_failure) =>
          \A n \in ret'.names :
              /\ set'[n].run_state.tag = "PostActive"
              /\ successful(set'[n].run_state.result)]_vars

C17_Witness ==
    /\ IsWait(ret) /\ ret.res = "Ok" /\ ret.terminate_on_failure
    /\ ret.names = {"a", "b"}

\* C18: when a pass of wait_with_timeout finds the runner of a container
\* finished and goes on, the container becomes PostActive with the result of
\* the runner, its active_container_id is cleared and one entry is removed
\* from the work list.
C18_FinishedPoll ==
    [][\A n \in DOMAIN set :
          (/\ w.pc = "loop" /\ w'.pc = "loop"
           /\ is_active(set[n])
           /\ set'[n].run_state.tag = "PostActive") =>
              /\ set'[n].run_state = PostActive(set[n].run_state.result)
              /\ set'[n].active_container_id = None
              /\ Len(w'.names) = Len(w.names) - 1]_vars

\* the `docker create` commands of a log that yielded an id, and its
\* `docker rm -f` commands
CreatedIn(cmds) == SelectSeq(cmds, LAMBDA c : c.cmd = "create" /\ c.id # None)
RemovedIn(cmds) == SelectSeq(cmds, LAMBDA c : c.cmd = "rm")

\* C19: when `docker create` fails for names[i] during run(names), a
\* `docker rm -f` is issued for the id of each of names[0..i], in order, and
\* for nothing else, their ids are cleared and their containers are gone, no
\* `docker start` and no `docker network rm` is issued, and network_active
\* is true.
C19_CreateFailureCleanup ==
    [][(ret.op = "none" /\ IsRun(ret') /\ ret'.res = "ErrCreate") =>
          LET created == CreatedIn(ret'.cmds)
              removed == RemovedIn(ret'.cmds)
              i == Len(created)
          IN /\ i < Len(ret'.arg)
             /\ \E k \in 1..Len(ret'.cmds) :
                   ret'.cmds[k] = Cmd("create", ret'.arg[i + 1], None)
             /\ Len(removed) = i
             /\ \A k \in 1..i :
                   /\ created[k].name = ret'.arg[k]
                   /\ removed[k] = Cmd("rm", ret'.arg[k], created[k].id)
                   /\ set'[ret'.arg[k]].active_container_id = None
                   /\ ~is_active(set'[ret'.arg[k]])
                   /\ ext'[created[k].id] = "none"
             /\ \A k \in 1..Len(ret'.cmds) :
                   ret'.cmds[k].cmd \notin {"start", "network_rm"}
             /\ network_active']_vars

\* the second `docker create` failed and the first container was removed,
\* with the network created by this call
C19_Witness ==
    /\ IsRun(ret) /\ ret.res = "ErrCreate"
    /\ Len(RemovedIn(ret.cmds)) = 1
    /\ ret.cmds[1].cmd = "network_create"

\* C20: terminate(names) leaves a listed container that is PreActive or
\* PostActive as it is (its run_state, with the stored result) and issues no
\* docker command for it; a name that is not in the engine is passed over
\* and the call returns Ok.
C20_TerminateInactiveNoOp ==
    [][Calls("terminate") =>
          /\ ret'.res = "Ok"
          /\ DOMAIN set' = DOMAIN set
          /\ \A n \in ret'.names \cap DOMAIN set :
                ~is_active(set[n]) =>
                   /\ set'[n].run_state = set[n].run_state
                   /\ \A k \in 1..Len(ret'.cmds) : ret'.cmds[k].name # n]_vars

\* C21: terminate(names) and terminate_containers() leave network_active as
\* it is and issue no `docker network rm`; terminate(names) leaves the
\* run_state and active_container_id of every container not in names
\* unchanged, and after terminate_containers no container is Active.
C21_TerminateKeepsNetwork ==
    [][(Calls("terminate") \/ Calls("terminate_containers")) =>
          /\ network_active' = network_active
          /\ \A k \in 1..Len(ret'.cmds) : ret'.cmds[k].cmd = "rm"
          /\ DOMAIN set' = DOMAIN set
          /\ ret'.op = "terminate" =>
                \A n \in DOMAIN set \ ret'.names : set'[n] = set[n]
          /\ ret'.op = "terminate_containers" =>
                \A n \in DOMAIN set : ~is_active(set'[n])]_vars

\* terminate removed a listed container while another one, not listed, is
\* still Active and the network is still recorded as active
C21_Witness ==
    /\ ret.op = "terminate" /\ ret.cmds # <<>>
    /\ network_active
    /\ \E n \in DOMAIN set \ ret.names : is_active(set[n])

\* C22: CTRLC_ISSUED is a latch that no engine operation writes (a step of
\* the engine changes it only where the wait loop reads a signal that has
\* just arrived); while it is set, the first thing a wait_with_timeout that
\* passed its pre-validation does is return the cancellation error; and the
\* completion flag of the CtrlCTask only ever goes from false to true.
C22_CancellationLatch ==
    [][/\ CTRLC_ISSUED => CTRLC_ISSUED'
       /\ (EngineStep /\ ~(w.pc = "loop" /\ ret'.res = "Cancelled")) =>
             CTRLC_ISSUED' = CTRLC_ISSUED
       /\ (w.pc = "loop" /\ CTRLC_ISSUED /\ EngineStep) =>
             (ret'.res = "Cancelled" /\ w' = Idle)
       /\ task.complete => task'.complete]_vars

\* a wait has torn the engine down and returned the cancellation error,
\* and the task, completed after the same signal, has been dropped since
C22_Witness ==
    /\ IsWait(ret) /\ ret.res = "Cancelled" /\ ret.cmds # <<>>
    /\ task.complete /\ task.status = "aborted"

\* C23: wait_for_ok returns the first Ok that f produces and calls f no more
\* after it; if f never succeeds it calls f exactly num_retries + 1 times
\* (once for num_retries = 0) and returns the timeout error made of the last
\* error; and it always returns.
C23_WaitForOk ==
    /\ [](/\ Len(wfo.calls) <= wfo.num_retries + 1
          /\ \A k \in 1..(Len(wfo.calls) - 1) : wfo.calls[k].kind = "Err"
          /\ (wfo.calls # <<>> /\ wfo.calls[Len(wfo.calls)].kind # "Err") =>
                (wfo.pc = "done" /\ wfo.result = wfo.calls[Len(wfo.calls)])
          /\ (wfo.pc = "done" /\ wfo.result.kind # "Ok") =>
                /\ Len(wfo.calls) = wfo.num_retries + 1
                /\ \A k \in 1..Len(wfo.calls) : wfo.calls[k].kind = "Err"
                /\ wfo.result
                      = Result("Timeout", wfo.calls[Len(wfo.calls)].val)
          /\ wfo.pc = "done" => wfo.result.kind \in {"Ok", "Timeout"})
    /\ [][wfo.pc = "done" => wfo' = wfo]_vars
    /\ <>(wfo.pc = "done")

\* with num_retries = 0 f was tried once, failed, and the timeout is returned
C23_Witness ==
    /\ wfo.pc = "done" /\ wfo.num_retries = 0
    /\ wfo.result.kind = "Timeout" /\ Len(wfo.calls) = 1

\* the step issues the docker command c (the commands of a step are those of
\* the call record it writes)
Issues(c) == ret' # ret /\ \E k \in 1..Len(ret'.cmds) : ret'.cmds[k].cmd = c

\* C28: a run issues `docker network create` exactly when pre-validation has
\* passed and network_active is false, once and before any other command;
\* when the command succeeds network_active is true after the call, when it
\* fails the call returns that error with network_active still false and no
\* container created.  network_active only becomes true by such a creation
\* and only becomes false by a step that issues `docker network rm`, every
\* `docker network rm` leaves it false, and no command but run's creates the
\* network, only when it is not recorded as active.
C28_NetworkCreation ==
    /\ [][(ret.op = "none" /\ IsRun(ret')) =>
           /\ Issues("network_create") <=>
                 (~network_active
                     /\ ret'.res \notin {"ErrValidation", "ErrAcquire"})
           /\ Issues("network_create") =>
                 /\ ret'.cmds[1].cmd = "network_create"
                 /\ \A k \in 2..Len(ret'.cmds) :
                        ret'.cmds[k].cmd # "network_create"
           /\ (Issues("network_create") /\ ret'.res # "ErrNetwork") =>
                 network_active'
           /\ ret'.res = "ErrNetwork" =>
                 /\ ret'.cmds = <<Cmd("network_create", "", None)>>
                 /\ ~network_active /\ ~network_active'
                 /\ set' = set /\ ext' = ext
           /\ network_active => network_active'
           /\ ~Issues("network_rm")]_vars
    /\ [][(~network_active /\ network_active') =>
             (ret.op = "none" /\ IsRun(ret') /\ Issues("network_create"))]_vars
    /\ [][Issues("network_create") =>
             (ret.op = "none" /\ IsRun(ret') /\ ~network_active)]_vars
    /\ [][Issues("network_rm") <=> (network_active /\ ~network_active')]_vars

\* a run of some names whose `docker network create` failed
C28_Witness ==
    /\ IsRun(ret) /\ ret.res = "ErrNetwork" /\ ret.names # {}
    /\ ret.cmds = <<Cmd("network_create", "", None)>>
    /\ ~network_active

\* the positions of the log `cmds` that hold the command c
At(cmds, c) == {k \in 1..Len(cmds) : cmds[k].cmd = c}

\* the commands c of the log `cmds`, in order
Of(cmds, c) == SelectSeq(cmds, LAMBDA x : x.cmd = c)

\* C29: in the commands of one run(names), the `docker create`s are those of
\* a prefix of names, in order; a `docker start` comes after a successful
\* create of every name of the call; the starts are those of a prefix of
\* names, in order, each with the id its own create returned; and every
\* `docker rm -f` comes after the creates and the starts and removes the id
\* that the create of its name returned in this call.  Outside run no create
\* or start is issued, a `docker rm -f` removes the id the container holds,
\* and a container only comes to hold a new id by a create of a run.
C29_RunOrdering ==
    /\ [][(ret.op = "none" /\ IsRun(ret')) =>
           LET cmds == ret'.cmds
               names == ret'.arg
               creates == Of(cmds, "create")
               starts == Of(cmds, "start")
               IdOf(n) == cmds[CHOOSE k \in At(cmds, "create") :
                                   cmds[k].name = n].id
           IN /\ Len(creates) <= Len(names)
              /\ \A k \in 1..Len(creates) :
                    /\ creates[k].name = names[k]
                    /\ creates[k].id = None => k = Len(creates)
              /\ \A j \in At(cmds, "start") :
                    /\ \A i \in At(cmds, "create") : i < j
                    /\ Len(creates) = Len(names)
                    /\ \A k \in 1..Len(creates) : creates[k].id # None
              /\ Len(starts) <= Len(names)
              /\ \A k \in 1..Len(starts) :
                    /\ starts[k].name = names[k]
                    /\ starts[k].id = IdOf(names[k])
              /\ \A j \in At(cmds, "rm") :
                    /\ \A i \in At(cmds, "create") \cup At(cmds, "start") :
                          i < j
                    /\ \E i \in At(cmds, "create") :
                          /\ cmds[i].name = cmds[j].name
                          /\ cmds[j].id = cmds[i].id
                    /\ cmds[j].id # None]_vars
    /\ [][(ret' # ret /\ ~IsRun(ret')) =>
           /\ At(ret'.cmds, "create") = {} /\ At(ret'.cmds, "start") = {}
           /\ \A j \in At(ret'.cmds, "rm") :
                 LET c == ret'.cmds[j] IN
                 /\ c.name \in DOMAIN set
                 /\ c.id # None
                 /\ c.id = set[c.name].active_container_id]_vars
    /\ [][\A n \in DOMAIN set :
             (/\ n \in DOMAIN set'
              /\ set'[n].active_container_id # None
              /\ set'[n].active_container_id # set[n].active_container_id) =>
                /\ ret.op = "none" /\ IsRun(ret')
                /\ Cmd("create", n, set'[n].active_container_id)
                      \in Range(ret'.cmds)]_vars

\* a run of two names whose second `docker start` failed: two creates, two
\* starts, then the removal of both containers
C29_Witness ==
    /\ IsRun(ret) /\ ret.res = "ErrStart" /\ Len(ret.arg) = 2
    /\ Len(Of(ret.cmds, "create")) = 2
    /\ Len(Of(ret.cmds, "start")) = 2
    /\ Len(Of(ret.cmds, "rm")) = 2

\* the wait loop decides to return the Timeout error (with
\* terminate_on_failure the teardown comes first)
TimesOut ==
    /\ w.pc = "loop"
    /\ \/ w'.pc = "sleep_timeout"
       \/ w'.pc = "idle" /\ ret'.res = "Timeout"

C31_VisitOrderAsStated ==
    [][(w.pc = "loop" /\ w'.pc = "loop" /\ Len(w'.names) < Len(w.names)) =>
          w'.i = 0]_vars

\* C31 amended: an iteration of wait_with_timeout polls names[i], with i
\* set back to 0 first when the end of a pass is reached and only then.  A
\* poll that finds the container still running leaves the list alone and
\* advances i by one; a poll that finds it finished (and does not abort)
\* records it as PostActive, removes names[i] and leaves i unchanged, so the
\* scan goes on with the name that followed; i never skips a name.
C31_VisitOrder ==
    [][(w.pc = "loop" /\ w'.pc = "loop" /\ EngineStep) =>
          LET j == IF PassEnd THEN 0 ELSE w.i
              n == w.names[j + 1]
              rs == set[n].run_state
          IN /\ w'.i \in {j, j + 1}
             /\ w'.i < w.i => PassEnd
             /\ w'.i = j + 1 <=> (rs.tag = "Active" /\ rs.child = "alive")
             /\ w'.i = j + 1 => w'.names = w.names
             /\ w'.names # w.names <=>
                    (rs.tag = "Active" /\ rs.child = "exited")
             /\ w'.names # w.names =>
                    /\ w'.i = j
                    /\ w'.names = [k \in 1..(Len(w.names) - 1) |->
                                      IF k <= j THEN w.names[k]
                                      ELSE w.names[k + 1]]
                    /\ set'[n].run_state = PostActive(rs.result)]_vars

\* the second of two waited names was found finished while the first still
\* runs: the first is left, and the scan index stays at 1
C31_Witness ==
    /\ w.pc = "loop" /\ Len(ret.arg) = 2 /\ NoDup(ret.arg)
    /\ w.names = <<ret.arg[1]>> /\ w.i = 1
    /\ set[ret.arg[2]].run_state.tag = "PostActive"
    /\ set[ret.arg[1]].run_state.child = "alive"

\* C36: between two engine operations every Active container holds a
\* container id, so get_active_container_ids finds an id to unwrap for each.
C36_ActiveHasId ==
    w.pc = "idle" =>
        \A n \in DOMAIN set :
            is_active(set[n]) => set[n].active_container_id # None

\* a wait without terminate_on_failure returned the compiled error after a
\* runner failed: the container is still Active and keeps its id, next to a
\* second container that is Active
C36_Witness ==
    /\ IsWait(ret) /\ ret.res = "Aggregate" /\ w.pc = "idle"
    /\ \E n \in DOMAIN set :
           /\ is_active(set[n]) /\ set[n].run_state.child = "killed"
           /\ set[n].active_container_id # None
    /\ \E n \in DOMAIN set : is_active(set[n]) /\ set[n].run_state.child = "alive"

\* C38: a wait_with_timeout without terminate_on_failure that is not
\* cancelled never tears anything down: none of its steps issues a docker
\* command, removes a container, changes a container id or network_active; a
\* container found finished becomes PostActive with its result and leaves
\* the work list whether or not it succeeded; and when the call times out
\* every container that was running is still Active with its id and
\* network_active is true.
C38_NoTeardownWithoutFlag ==
    [][(w.pc # "idle" /\ ~w.tof /\ ~CTRLC_ISSUED' /\ EngineStep) =>
          /\ ret'.cmds = <<>>
          /\ ext' = ext
          /\ network_active' = network_active
          /\ w'.pc \in {"loop", "idle"}
          /\ \A n \in DOMAIN set :
                /\ set'[n].active_container_id = set[n].active_container_id
                /\ set'[n] # set[n] =>
                      /\ n = Polled /\ is_active(set[n])
                      /\ \/ set'[n].run_state = PostActive(set[n].run_state.result)
                         \/ set'[n].run_state.tag = "Active"
          /\ (/\ w.names # <<>>
              /\ is_active(set[Polled])
              /\ set[Polled].run_state.child = "exited"
              /\ ~(PassEnd /\ ~w.skip_fail)) =>
                 /\ set'[Polled].run_state =
                        PostActive(set[Polled].run_state.result)
                 /\ Len(w'.names) = Len(w.names) - 1
                 /\ w'.pc = "loop"
          /\ ret'.res = "Timeout" =>
                 /\ network_active'
                 /\ \A n \in DOMAIN set :
                        is_active(set[n]) =>
                            /\ is_active(set'[n])
                            /\ set'[n].active_container_id # None]_vars

\* of two waited containers one exited unsuccessfully and was recorded, the
\* other still runs: the call returned the timeout error and left it running
C38_Witness ==
    /\ IsWait(ret) /\ ret.res = "Timeout" /\ ~ret.terminate_on_failure
    /\ Len(ret.arg) = 2 /\ Len(ret.left) = 1
    /\ \E n \in ret.names :
           /\ set[n].run_state.tag = "PostActive"
           /\ set[n].run_state.result.status = "fail"
    /\ \E n \in ret.names :
           /\ is_active(set[n]) /\ set[n].active_container_id # None
           /\ ext[set[n].active_container_id] = "running"
    /\ network_active

\* C39: a run(names) that fails leaves every container that is not in names
\* as it was, run_state and container id, and leaves its docker container
\* alone; every `docker rm -f` it issues is for a name of names; and it does
\* not clear network_active, which is true after a failed create or start.
C39_RunFailureFrame ==
    [][(IsRun(ret') /\ ret' # ret /\ ret'.res # "Ok") =>
          /\ \A n \in DOMAIN set \ ret'.names :
                /\ set'[n] = set[n]
                /\ set[n].active_container_id # None =>
                       ext'[set[n].active_container_id]
                           = ext[set[n].active_container_id]
          /\ \A k \in At(ret'.cmds, "rm") : ret'.cmds[k].name \in ret'.names
          /\ At(ret'.cmds, "network_rm") = {}
          /\ network_active => network_active'
          /\ ret'.res \in {"ErrCreate", "ErrStart"} => network_active']_vars

\* a run of one container failed at its start and was cleaned up while the
\* other container, started by an earlier run, is still running
C39_Witness ==
    /\ ret.op = "run" /\ ret.res = "ErrStart" /\ At(ret.cmds, "rm") # {}
    /\ network_active
    /\ \E n \in DOMAIN set \ ret.names :
           /\ is_active(set[n]) /\ set[n].active_container_id # None
           /\ ext[set[n].active_container_id] = "running"

\* C40 as stated: when wait_with_timeout returns the Timeout error, exactly
\* the waited names that were removed from the list are PostActive.
C40_WorkListAsStated ==
    (IsWait(ret) /\ ret.res = "Timeout") =>
        \A n \in ret.names :
            n \notin Range(ret.left) <=> set[n].run_state.tag = "PostActive"

\* C40 amended: when wait_with_timeout returns Ok the list is empty.  When
\* it returns the Timeout error the list holds entries of the list given, in
\* their original relative order; and when no name was given twice and
\* terminate_on_failure is false, a waited name is in the list exactly when
\* its container is still Active and is missing from it exactly when its
\* container is PostActive.
C40_WorkList ==
    [][(IsWait(ret') /\ ret' # ret) =>
          /\ ret'.res = "Ok" => ret'.left = <<>>
          /\ ret'.res = "Timeout" =>
                /\ ret'.left # <<>>
                /\ \E f \in [1..Len(ret'.left) -> 1..Len(ret'.arg)] :
                       /\ \A k \in 1..Len(ret'.left) :
                              ret'.arg[f[k]] = ret'.left[k]
                       /\ \A j, k \in 1..Len(ret'.left) :
                              j < k => f[j] < f[k]
                /\ (NoDup(ret'.arg) /\ ~ret'.terminate_on_failure) =>
                       \A n \in ret'.names :
                           /\ n \in Range(ret'.left) <=> is_active(set'[n])
                           /\ n \notin Range(ret'.left) <=>
                                  set'[n].run_state.tag = "PostActive"]_vars

\* the first of two waited containers finished successfully and left the
\* list; the call timed out on the second, which is the one entry returned
C40_Witness ==
    /\ IsWait(ret) /\ ret.res = "Timeout" /\ ~ret.terminate_on_failure
    /\ Len(ret.arg) = 2 /\ NoDup(ret.arg) /\ ret.left = <<ret.arg[2]>>
    /\ set[ret.arg[1]].run_state.tag = "PostActive"
    /\ set[ret.arg[1]].run_state.result.status = "ok"
    /\ is_active(set[ret.arg[2]])

Next ==
    \/ ContainerExit
    \/ CtrlC
    \/ CallerContinues
    \/ AddContainer
    \/ Terminate
    \/ TerminateContainers
    \/ TerminateAll
    \/ Run
    \/ RunAll
    \/ WaitWithTimeout
    \/ WaitWithTimeoutAll
    \/ WaitCancelled
    \/ WaitDone
    \/ WaitTimeout
    \/ WaitPoll
    \/ WaitTeardown

Spec == Init /\ [][Next]_vars

\* the engine with a wait loop that keeps running: the clock advances and
\* every poll returns, so an iteration that can change the frame is
\* eventually made, the return at the head of the loop included when the
\* cancellation flag is set; that the signal ever arrives is not assumed
SpecWaitFair ==
    Spec /\ WF_vars(\/ CTRLC_ISSUED /\ WaitCancelled
                    \/ WaitDone \/ WaitTimeout \/ WaitPoll \/ WaitTeardown)

\* C37: every wait_with_timeout call whose names pass the precheck, a name
\* given twice included, eventually returns.
C37_WaitReturns == (w.pc # "idle") ~> (w.pc = "idle")

\* The configuration calls on their own: an engine made with or without a
\* dockerfile_write_dir, empty or with container "a" already running.
InitConf ==
    \E dir \in {"None", "Some"} :
        \/ New(dir)
        \/ /\ set = [n \in {"a"} |->
                       [run_state |-> Active("alive", NoResult),
                        active_container_id |-> 1,
                        already_tried_drop |-> FALSE]]
           /\ network_active = TRUE
           /\ CTRLC_ISSUED = FALSE
           /\ ext = [id \in Ids |-> IF id = 1 THEN "running" ELSE "none"]
           /\ conf = [dockerfile_write_dir |-> dir,
                      container |->
                          [n \in {"a"} |-> Container("Path", <<>>, <<>>)]]
           /\ w = Idle
           /\ ret = NoCall
           /\ task = NoTask
           /\ ec = [set |-> <<>>, done |-> FALSE, res |-> {}]
           /\ net = [e \in {"l", "r"} |->
                     [buf |-> <<>>, wire |-> <<>>, sent |-> <<>>, got |-> <<>>]]
           /\ wfo = NoWaitForOk
           /\ sdf = NoSuperDockerfile

AddContainerAny == AddContainerOf(Containers)

NextConf ==
    \/ AddContainerAny
    \/ AddCommonVolumes
    \/ AddCommonEntrypointArgs
    \/ CallerContinues

SpecConf == InitConf /\ [][NextConf]_vars

\* -------------------------------------------------------------- wait_for_ok
\* wait_for_ok giving up one retry early
ExhaustedEarly(i) == i <= 1

\* `if i == 0` after f returned an error
Exhausted(i) == i = 0

\* wait_for_ok is called with some num_retries (and any delay)
InitWaitForOk ==
    /\ NewEngine("None")
    /\ task = NoTask
    /\ ec = [set |-> <<>>, done |-> FALSE, res |-> {}]
    /\ net = [e \in {"l", "r"} |->
              [buf |-> <<>>, wire |-> <<>>, sent |-> <<>>, got |-> <<>>]]
    /\ sdf = NoSuperDockerfile
    /\ \E num_retries \in 0..MaxRetries :
          wfo = WaitForOkFrame("call", num_retries, num_retries, <<>>, Result("none", "none"))

\* `match f().await`: Ok is returned at once; an error is returned as a
\* timeout when i is 0, else i is decremented and the loop sleeps
WaitForOkPoll ==
    /\ wfo.pc = "call"
    \* what a call of f can return: one of two values or one of two errors
    /\ \E r \in {Result(k, v) : k \in {"Ok", "Err"}, v \in {"x", "y"}} :
          LET calls == Append(wfo.calls, r) IN
          wfo' = IF r.kind = "Ok"
                 THEN [wfo EXCEPT !.pc = "done", !.calls = calls, !.result = r]
                 ELSE IF Exhausted(wfo.i)
                 THEN [wfo EXCEPT !.pc = "done", !.calls = calls,
                                  !.result = Result("Timeout", r.val)]
                 ELSE [wfo EXCEPT !.pc = "sleep", !.calls = calls,
                                  !.i = wfo.i - 1]
    /\ UNCHANGED <<engine, task, sdf, ec, net>>

\* `sleep(delay).await` is over
WaitForOkSleep ==
    /\ wfo.pc = "sleep"
    /\ wfo' = [wfo EXCEPT !.pc = "call"]
    /\ UNCHANGED <<engine, task, sdf, ec, net>>

NextWaitForOk ==
    \/ WaitForOkPoll
    \/ WaitForOkSleep

\* f returns whenever it is called, and the sleep ends
SpecWaitForOk ==
    InitWaitForOk /\ [][NextWaitForOk]_vars /\ WF_vars(NextWaitForOk)

\* ---------------------------------------------------------------- CtrlCTask
\* CtrlCTask::spawn: a fresh flag, false, and a task that awaits ctrl_c()
SpawnCtrlCTask ==
    /\ task.status = "none"
    /\ task' = [status |-> "awaiting", complete |-> FALSE]
    /\ UNCHANGED <<engine, wfo, sdf, ec, net>>

\* the body of the spawned task once ctrl_c() has returned res
CtrlCTaskBody(t, res) ==
    IF res = "Ok" THEN [status |-> "finished", complete |-> TRUE]
    ELSE [t EXCEPT !.status = "failed"]

\* ctrl_c() completes for the task after the signal was delivered
CtrlCTaskOk ==
    /\ task.status = "awaiting"
    /\ CTRLC_ISSUED
    /\ task' = CtrlCTaskBody(task, "Ok")
    /\ UNCHANGED <<engine, wfo, sdf, ec, net>>

\* ctrl_c() returns an error: the task warns and does nothing
CtrlCTaskErr ==
    /\ task.status = "awaiting"
    /\ task' = CtrlCTaskBody(task, "Err")
    /\ UNCHANGED <<engine, wfo, sdf, ec, net>>

\* Drop for CtrlCTask: the task is aborted
DropResets(t) == [status |-> "aborted", complete |-> FALSE]

Drop(t) == [t EXCEPT !.status = "aborted"]

DropCtrlCTask ==
    /\ task.status \in {"awaiting", "finished", "failed"}
    /\ task' = Drop(task)
    /\ UNCHANGED <<engine, wfo, sdf, ec, net>>

\* A program that may spawn a CtrlCTask and drives an engine of one container
AddContainerA == AddContainerIn({"a"}, PlainContainers)

NextCtrlC ==
    \/ SpawnCtrlCTask
    \/ CtrlCTaskOk
    \/ CtrlCTaskErr
    \/ DropCtrlCTask
    \/ ContainerExit
    \/ CtrlC
    \/ CallerContinues
    \/ AddContainerA
    \/ Terminate
    \/ TerminateContainers
    \/ TerminateAll
    \/ Run
    \/ RunAll
    \/ WaitWithTimeout
    \/ WaitWithTimeoutAll
    \/ WaitCancelled
    \/ WaitDone
    \/ WaitTimeout
    \/ WaitPoll
    \/ WaitTeardown

SpecCtrlC == Init /\ [][NextCtrlC]_vars

\* ---------------------------------------------------------------------
\* The Dockerfile assembler: SuperDockerfile of api_docker, with the
\* with_healthcheck and the tarball wrapper of bld::super_configurator.

\* the (from, to) lists given to copying_from_paths, at most MaxFiles items
FromToLists ==
    UNION {[1..k -> {<<from, <<"t">>>> : from \in Paths}] : k \in 1..MaxFiles}

\* resolve_from_to: `from` is joined to the build path when there is one
\* (<<>> when none was set: with_build_path is not called)
resolve_from_to(from, to, build_path) ==
    IF build_path = <<>> THEN <<from, to>>
    ELSE <<build_path \o <<"/">> \o from, to>>

\* for s in v { content_extend.push(b'\n'); content_extend.extend(s) }
RECURSIVE append_dockerfile_lines_mut(_, _)
append_dockerfile_lines_mut(content_extend, v) ==
    IF v = <<>> THEN content_extend
    ELSE append_dockerfile_lines_mut(content_extend \o <<"\n">> \o Head(v),
                                     Tail(v))

\* the assembler after append_dockerfile_lines_mut(v), v noted as appended
AppendLines(s, v) ==
    [s EXCEPT !.content_extend = append_dockerfile_lines_mut(@, v),
              !.lines = @ \o v]

\* Vec<String>::join(sep)
RECURSIVE Join(_, _)
Join(v, sep) ==
    IF v = <<>> THEN <<>>
    ELSE IF Len(v) = 1 THEN v[1]
    ELSE v[1] \o sep \o Join(Tail(v), sep)

\* format!("COPY {from} {to}")
CopyLine(from, to) == <<"COPY", " ">> \o from \o <<" ">> \o to

\* the arguments of the ENTRYPOINT line: each one quoted, with ", " before it
RECURSIVE QuotedArgs(_)
QuotedArgs(args) ==
    IF args = <<>> THEN <<>>
    ELSE <<",", " ", "\"">> \o Head(args) \o <<"\"">> \o QuotedArgs(Tail(args))

\* the assembler is with the caller and has room for k more lines
Held(k) == sdf.pc = "held" /\ Len(sdf.lines) + k <= MaxLines

\* append_dockerfile_instructions(v)
AppendDockerfileInstructions ==
    \* two instruction lists, the second one ends with an empty line
    /\ \E v \in {<< <<"RUN">> >>, << <<"ENV">>, <<>> >>} :
          /\ Held(Len(v))
          /\ sdf' = [AppendLines(sdf, v) EXCEPT !.res = "Ok"]
    /\ UNCHANGED <<engine, task, wfo, ec, net>>

\* with_healthcheck(opts, command): the text of
\* format!("HEALTHCHECK {} CMD {}", opts.join(" "), command.join(" ")) goes
\* to content_extend as it is
WithHealthcheck ==
    /\ Held(1)
    /\ LET opts == <<>>
           command == << <<"x">> >>
           line == <<"HEALTHCHECK", " ">> \o Join(opts, <<" ">>)
                      \o <<" ", "CMD", " ">> \o Join(command, <<" ">>)
       IN
       sdf' = [sdf EXCEPT !.content_extend = @ \o line,
                          !.lines = Append(@, line), !.res = "Ok"]
    /\ UNCHANGED <<engine, task, wfo, ec, net>>

\* the call takes the assembler: one spawn_blocking worker per item
StartCopy(op, items, pc, args) ==
    sdf' = [sdf EXCEPT !.pc = "copying", !.res = "none",
                       !.call = CopyCall(op, items, [k \in 1..Len(items) |-> pc],
                                         args,
                                         [lines |-> sdf.lines,
                                          tarball |-> sdf.tarball])]

\* copying_from_paths(v)
CopyingFromPaths ==
    /\ \E v \in FromToLists :
          /\ Held(Len(v))
          /\ StartCopy("copying_from_paths",
                       [k \in 1..Len(v) |->
                          resolve_from_to(v[k][1], v[k][2], <<>>)],
                       "open", <<>>)
    /\ UNCHANGED <<engine, task, wfo, ec, net>>

\* copying_from_contents(v): an item is copied from `to` to `to`
CopyingFromContents ==
    /\ \E v \in UNION {[1..k -> Paths] : k \in 1..MaxFiles} :
          /\ Held(Len(v))
          /\ StartCopy("copying_from_contents",
                       [k \in 1..Len(v) |-> <<v[k], v[k]>>], "lock", <<>>)
    /\ UNCHANGED <<engine, task, wfo, ec, net>>

\* with_entrypoint(entrypoint, entrypoint_args): copying_from_paths of the
\* one file, the ENTRYPOINT line follows when that call is back
WithEntrypoint ==
    /\ Held(2)
    /\ \E args \in {<<>>, << <<"x">> >>} :
          StartCopy("with_entrypoint",
                    << resolve_from_to(<<"p">>, <<"e">>, <<>>) >>,
                    "open", args)
    /\ UNCHANGED <<engine, task, wfo, ec, net>>

\* a worker that has not finished, of a call that is awaited or was left
Working(k, pc) ==
    /\ sdf.pc \in {"copying", "lost"}
    /\ k \in 1..Len(sdf.call.workers)
    /\ sdf.call.workers[k] = pc

\* std::fs::File::open(&from), before the lock is taken
WorkerOpen ==
    /\ \E k \in 1..MaxFiles, pc \in {"lock", "err"} :
          /\ Working(k, "open")
          /\ sdf' = [sdf EXCEPT !.call.workers[k] = pc]
    /\ UNCHANGED <<engine, task, wfo, ec, net>>

\* SuperTarballWrapper::append_file: the path is recorded, then the entry is
\* appended to the tar builder, which may fail
append_file(tarball, path, ok) ==
    Tarball(Append(tarball.paths, path),
            IF ok THEN Append(tarball.tar, path) ELSE tarball.tar)

\* under the lock: the COPY line is appended, then the file to the tarball
WorkerAppend ==
    /\ \E k \in 1..MaxFiles, ok \in BOOLEAN :
          /\ Working(k, "lock")
          /\ LET from == sdf.call.items[k][1]
                 to == sdf.call.items[k][2]
             IN sdf' = [AppendLines(sdf, <<CopyLine(from, to)>>) EXCEPT
                           !.tarball = append_file(@, from, ok),
                           !.call.workers[k] = IF ok THEN "ok" ELSE "err"]
    /\ UNCHANGED <<engine, task, wfo, ec, net>>

\* try_join_all with every worker back and no error
JoinResultAllBack(workers) ==
    IF \A k \in 1..Len(workers) : workers[k] \in {"ok", "err"}
    THEN "Ok" ELSE "Pending"

\* try_join_all(futs): the first error, or Ok when every worker returned Ok
JoinResult(workers) ==
    IF \E k \in 1..Len(workers) : workers[k] = "err" THEN "Err"
    ELSE IF \A k \in 1..Len(workers) : workers[k] = "ok" THEN "Ok"
    ELSE "Pending"

\* `try_join_all(futs).await.stack()?` and the return: on an error the
\* assembler stays with the workers and the caller gets none; else it is
\* unwrapped and returned, after the ENTRYPOINT line in with_entrypoint
TryJoinAll ==
    /\ sdf.pc = "copying"
    /\ LET res == JoinResult(sdf.call.workers)
           to == sdf.call.items[1][2]
           \* format!(r#"ENTRYPOINT ["{to}"{entrypoint_args}] "#)
           entrypoint == <<"ENTRYPOINT", " ", "[", "\"">> \o to \o <<"\"">>
                            \o QuotedArgs(sdf.call.args) \o <<"]", " ">>
       IN /\ res # "Pending"
          /\ sdf' = IF res = "Err"
                    THEN [sdf EXCEPT !.pc = "lost", !.res = "Err"]
                    ELSE IF sdf.call.op = "with_entrypoint"
                    THEN [AppendLines(sdf, <<entrypoint>>)
                            EXCEPT !.pc = "held", !.res = "Ok"]
                    ELSE [sdf EXCEPT !.pc = "held", !.res = "Ok"]
    /\ UNCHANGED <<engine, task, wfo, ec, net>>

\* the name of the generated Dockerfile in the tarball
DOCKER_FILE_NAME == <<"./super.dockerfile">>

\* the bytes of the Dockerfile source, `read` being what fs::read returned
SourceBytes(base, read) ==
    IF base.kind = "NameTag" THEN Result("Ok", <<"FROM", " ">> \o base.val)
    ELSE IF base.kind = "Path" THEN read
    ELSE Result("Ok", base.val)

\* create_dockerfile_returning_file_handle: source bytes, then content_extend
create_dockerfile(s, read) ==
    LET file_contents == SourceBytes(s.base, read) IN
    IF file_contents.kind = "Ok"
    THEN Result("Ok", file_contents.val \o s.content_extend)
    ELSE file_contents

\* into_bollard_args: the Dockerfile is rendered and appended to the tarball,
\* which is then sealed; an error leaves the caller without the assembler
IntoBollardArgs ==
    /\ sdf.pc = "held"
    /\ \E read \in FileReads, ok \in BOOLEAN :
          LET docker_file == create_dockerfile(sdf, read) IN
          sdf' = IF docker_file.kind # "Ok"
                 THEN [sdf EXCEPT !.pc = "lost", !.res = "Err"]
                 ELSE IF ~ok
                 THEN [sdf EXCEPT !.pc = "lost", !.res = "Err",
                          !.tarball = append_file(@, DOCKER_FILE_NAME, FALSE)]
                 ELSE [sdf EXCEPT !.pc = "sealed", !.res = "Ok",
                          !.tarball = append_file(@, DOCKER_FILE_NAME, TRUE),
                          !.dockerfile = docker_file]
    /\ UNCHANGED <<engine, task, wfo, ec, net>>

\* an assembler is made from one of the Dockerfile sources
InitSuperDockerfile ==
    /\ NewEngine("None")
    /\ task = NoTask
    /\ ec = [set |-> <<>>, done |-> FALSE, res |-> {}]
    /\ net = [e \in {"l", "r"} |->
              [buf |-> <<>>, wire |-> <<>>, sent |-> <<>>, got |-> <<>>]]
    /\ wfo = NoWaitForOk
    /\ \E base \in {Dockerfile("NameTag", <<"a">>), Dockerfile("Path", <<"d">>),
                     Dockerfile("Contents", <<"F">>)} :
          sdf = NewSuperDockerfile(base)

NextSuperDockerfile ==
    \/ AppendDockerfileInstructions
    \/ WithHealthcheck
    \/ CopyingFromPaths
    \/ CopyingFromContents
    \/ WithEntrypoint
    \/ WorkerOpen
    \/ WorkerAppend
    \/ TryJoinAll
    \/ IntoBollardArgs

SpecSuperDockerfile == InitSuperDockerfile /\ [][NextSuperDockerfile]_vars
\* ---------------------------------------------------------------------
\* Claims about the Dockerfile assembler

\* C24: the rendered Dockerfile is the source bytes followed, for every
\* appended instruction line in order, by a newline and the line's bytes.
\* Checked on the sealed assembler, against the lines appended to it.
C24_DockerfileRendering ==
    sdf.pc = "sealed" =>
        \E read \in FileReads :
            LET source == SourceBytes(sdf.base, read) IN
            /\ source.kind = "Ok"
            /\ sdf.dockerfile.val =
                  source.val \o append_dockerfile_lines_mut(<<>>, sdf.lines)

C26_CopyRoundTrip ==
    LET copies == SelectSeq(sdf.lines,
                            LAMBDA l : l # <<>> /\ Head(l) = "COPY")
        \* the first space of the line after its position 2, or its end
        SpaceAfter(l) ==
            IF \E j \in 3..Len(l) : l[j] = " "
            THEN CHOOSE j \in 3..Len(l) :
                    l[j] = " " /\ \A i \in 3..(j - 1) : l[i] # " "
            ELSE Len(l) + 1
        CopySource(l) == SubSeq(l, 3, SpaceAfter(l) - 1)
    IN sdf.pc = "held" =>
          [k \in 1..Len(copies) |-> CopySource(copies[k])] = sdf.tarball.tar

\* C27: the paths recorded by the tarball hold no duplicate, whenever the
\* caller holds the assembler or has sealed it.
C27_TarballPathsUnique ==
    sdf.pc \in {"held", "sealed"} => NoDup(sdf.tarball.paths)

\* C34: with_healthcheck appends its instruction like every other appended
\* line: whatever was done before, the Dockerfile rendered after the call is
\* the one rendered before it, a newline byte, and the HEALTHCHECK
\* instruction.
C34_HealthcheckOnOwnLine ==
    [][(/\ Len(sdf'.lines) = Len(sdf.lines) + 1
        /\ Head(sdf'.lines[Len(sdf'.lines)]) = "HEALTHCHECK") =>
          \A read \in FileReads :
              read.kind = "Ok" =>
                  create_dockerfile(sdf', read).val =
                      create_dockerfile(sdf, read).val \o <<"\n">>
                          \o sdf'.lines[Len(sdf'.lines)]]_vars

\* ---------------------------------------------------------------------
\* error_compilation on the stdouts of ended containers.  A stdout is kept as
\* the sequence of the literals the scan looks for, in the order they occur:
\* "S" for `Error { stack: [`, "N" for `ProbablyNotRootCauseError`, "T" for
\* `thread` and "P" for ` panicked at `.

\* str::rfind(pat): the place of the last occurrence, 0 for None
rfind(s, pat) ==
    IF \E k \in 1..Len(s) : s[k] = pat
    THEN CHOOSE k \in 1..Len(s) :
            s[k] = pat /\ \A j \in (k + 1)..Len(s) : s[j] # pat
    ELSE 0

\* what the three scans of error_compilation find in a stdout:
\* `stdout.rfind(error_stack)` is Some, `stdout.contains(not_root_cause)`,
\* and `stdout.rfind(panicked_at)` is Some(i) with a "thread" in stdout[0..i]
Markers(stdout) ==
    Stdout(rfind(stdout, "S") # 0,
           \E k \in 1..Len(stdout) : stdout[k] = "N",
           LET i == rfind(stdout, "P")
           IN i # 0 /\ rfind(SubSeq(stdout, 1, i - 1), "T") # 0)

\* a container ends with an exit status and a stdout and is recorded as
\* PostActive; all stdouts together hold at most MaxOut literals
ContainerEnds ==
    \E n \in Names \ DOMAIN ec.set, status \in {"ok", "fail", "term"} :
    \E stdout \in UNION {[1..k -> {"S", "N", "T", "P"}] : k \in 0..MaxOut} :
        /\ ~ec.done
        /\ \A m \in DOMAIN ec.set : Len(ec.set[m].stdout) + Len(stdout) <= MaxOut
        /\ ec' = [ec EXCEPT !.set =
                     [m \in DOMAIN ec.set \cup {n} |->
                        IF m = n THEN [status |-> status, stdout |-> stdout]
                        ELSE ec.set[m]]]
        /\ UNCHANGED <<engine, task, wfo, sdf, net>>

\* error_compilation over the recorded containers
ErrorCompilationCall ==
    /\ ~ec.done
    /\ ec' = [ec EXCEPT
                !.done = TRUE,
                !.res = error_compilation(
                    [n \in DOMAIN ec.set |->
                       [run_state |->
                            PostActive([status |-> ec.set[n].status,
                                        out |-> Markers(ec.set[n].stdout)]),
                        active_container_id |-> None,
                        already_tried_drop |-> FALSE]])]
    /\ UNCHANGED <<engine, task, wfo, sdf, net>>

SpecErrorCompilation ==
    Init /\ [][ContainerEnds \/ ErrorCompilationCall]_vars

\* C32: in the compiled error, a container that exited unsuccessfully has its
\* error stack (the stdout from the last `Error { stack: [` on) unless that
\* stack holds ProbablyNotRootCauseError, has its panic message if there is
\* one, and has the generic message if its stdout has neither marker; a
\* successful container has nothing.
C32_AggregateFilter ==
    ec.done =>
        \A n \in DOMAIN ec.set :
            LET out == ec.set[n].stdout
                s == rfind(out, "S")
                stack == SubSeq(out, s, Len(out))
            IN /\ ec.set[n].status = "ok" =>
                      \A k \in {"stack", "panic", "generic"} :
                          <<n, k>> \notin ec.res
               /\ ec.set[n].status = "fail" =>
                      /\ <<n, "stack">> \in ec.res <=>
                             (s # 0 /\ "N" \notin Range(stack))
                      /\ <<n, "panic">> \in ec.res <=> Markers(out).panic
                      /\ (s = 0 /\ rfind(out, "P") = 0) =>
                             <<n, "generic">> \in ec.res

\* ---------------------------------------------------------------------
\* Drop for ContainerState

\* a finalizer that sets the flag and leaves the id where it is
DropKeepsId(state) == [state EXCEPT !.already_tried_drop = TRUE]

\* impl Drop for ContainerState: nothing when already_tried_drop is set; else
\* the flag is set and the id, if there is one, is taken
DropState(state) ==
    IF state.already_tried_drop THEN state
    ELSE [state EXCEPT !.already_tried_drop = TRUE,
                       !.active_container_id = None]

\* the ContainerNetwork goes out of scope between two calls and the
\* finalizer of every ContainerState runs, in the order of the map; or the
\* finalizers of the states of a dropped network run once more.  A finalizer
\* that finds the flag unset and an id issues `docker rm -f <id>`
DropNetwork ==
    /\ Ready \/ w.pc = "dropped"
    /\ LET guarded == [n \in DOMAIN set |->
                          IF set[n].already_tried_drop
                          THEN [set[n] EXCEPT !.active_container_id = None]
                          ELSE set[n]]
       IN /\ set' = [n \in DOMAIN set |-> DropState(set[n])]
          /\ ext' = RmF(ext, guarded, DOMAIN set)
          /\ ret' = Ret("drop", <<>>, "Ok", {}, <<>>,
                        RmLog(guarded, KnownNames(set)))
    /\ w' = [Idle EXCEPT !.pc = "dropped"]
    /\ UNCHANGED <<others, conf, network_active, CTRLC_ISSUED>>

\* a program that drives an engine of one container and lets it go
SpecDrop ==
    Init /\ [][NextCtrlC \/ DropNetwork]_vars

\* C33: the finalizer of a ContainerState issues `docker rm -f <id>` exactly
\* when the state holds an id and already_tried_drop is unset; afterwards the
\* flag is set and the id is gone, so a repeated finalization and one after
\* terminate() issue nothing.  Over all operations, every `docker rm -f`
\* names a container that exists (created and not removed before), no id
\* twice in one call, and the container is removed by it: at most one
\* `docker rm -f` per created id.
C33_DropGuard ==
    /\ [][(ret'.op = "drop" /\ ret' # ret) =>
             \A n \in DOMAIN set :
                 /\ (\E k \in 1..Len(ret'.cmds) : ret'.cmds[k].name = n) <=>
                        (set[n].active_container_id # None
                            /\ ~set[n].already_tried_drop)
                 /\ \A k \in 1..Len(ret'.cmds) :
                        ret'.cmds[k].name = n =>
                            ret'.cmds[k] = Cmd("rm", n, set[n].active_container_id)
                 /\ set'[n].already_tried_drop
                 /\ set'[n].active_container_id = None
                 /\ set'[n].run_state = set[n].run_state]_vars
    /\ [][(w.pc = "dropped" /\ ret'.op = "drop" /\ ret' # ret) =>
             ret'.cmds = <<>>]_vars
    /\ [][ret' # ret =>
             \A k \in At(ret'.cmds, "rm") :
                 LET id == ret'.cmds[k].id IN
                 /\ id \in Ids
                 /\ ext'[id] = "none"
                 /\ \/ ext[id] # "none"
                    \/ \E j \in At(ret'.cmds, "create") :
                           j < k /\ ret'.cmds[j].id = id
                 /\ \A j \in At(ret'.cmds, "rm") :
                        j # k => ret'.cmds[j].id # id]_vars

\* the network was dropped while its container held an id, from a run or a
\* finished wait, and its finalizer issued the removal
C33_Witness ==
    /\ ret.op = "drop" /\ w.pc = "dropped"
    /\ At(ret.cmds, "rm") # {}
    /\ \A n \in DOMAIN set : set[n].already_tried_drop

\* ---------------------------------------------------------------------
\* NetMessenger (src/src/net_message.rs): the two ends "l" and "r" of one
\* connection.  Of an end, buf is the Vec<u8> its messenger keeps around,
\* wire the bytes of its incoming stream not read yet, sent the messages its
\* peer sent to it and got what its recv calls returned.  Bytes are
\* integers; the block of hash bytes of a type is one element.

\* type_hash::<T>(): the leading bytes of the SHA3-256 of the type name
type_hash(T) == IF T = "T" THEN 7 ELSE 9

\* MUSLI_CONFIG.encode(&mut buf, msg): the writer is the Vec itself, so the
\* encoding of msg (its length, then its bytes) is appended to what buf holds
encode(buf, msg) == buf \o <<Len(msg)>> \o msg

\* MUSLI_CONFIG.decode(bytes): the value at the head of the slice; what comes
\* behind it is not looked at, or the decoder rejects it
decode(bytes) ==
    IF bytes = <<>> \/ Len(bytes) < bytes[1] + 1
    THEN {Result("Err", <<>>)}
    ELSE {Result("Ok", SubSeq(bytes, 2, bytes[1] + 1))}
            \cup (IF Len(bytes) > bytes[1] + 1
                  THEN {Result("Err", <<>>)} ELSE {})

\* send::<T>(msg) on the messenger of the peer of `to`
Send ==
    \E to \in {"l", "r"}, msg \in {<<1>>, <<1, 2>>} :
        LET from == IF to = "l" THEN "r" ELSE "l"
            buf == encode(net[from].buf, msg)
        IN /\ Len(net[to].sent) < MaxMsgs
           /\ net' = [e \in {"l", "r"} |->
                        IF e = from THEN [net[e] EXCEPT !.buf = buf]
                        ELSE [net[e] EXCEPT
                                !.wire = @ \o <<type_hash("T"), Len(buf)>>
                                           \o buf,
                                !.sent = Append(@, msg)]]
           /\ UNCHANGED <<engine, task, wfo, sdf, ec>>

\* recv::<T>() on the messenger of end e once a frame has arrived: the id is
\* read and compared, then the length, then that many bytes into the head
\* of buf, which is grown when it is too short and never shrunk
Recv ==
    \E e \in {"l", "r"} :
        /\ net[e].wire # <<>>
        /\ LET actual_id == net[e].wire[1]
               data_len == net[e].wire[2]
               data == SubSeq(net[e].wire, 3, data_len + 2)
               rest == SubSeq(net[e].wire, data_len + 3, Len(net[e].wire))
               buf == data \o SubSeq(net[e].buf, data_len + 1, Len(net[e].buf))
           IN IF actual_id # type_hash("T")
              THEN net' = [net EXCEPT
                             ![e].wire = Tail(@),
                             ![e].got = Append(@, Result("Err", <<>>))]
              ELSE \E res \in decode(SubSeq(buf, 1, data_len)) :
                      net' = [net EXCEPT ![e].wire = rest, ![e].buf = buf,
                                         ![e].got = Append(@, res)]
        /\ UNCHANGED <<engine, task, wfo, sdf, ec>>

SpecNetMessenger == Init /\ [][Send \/ Recv]_vars

\* C35: on either end, the recv calls made so far returned the messages
\* sent to it, in order and each once, and the bytes still in its stream are
\* the frames of the messages not received yet, one per message: the type
\* hash, the length of the encoding of that message, and that encoding.
C35_FifoRoundTrip ==
    \A e \in {"l", "r"} :
        LET RECURSIVE Frames(_)
            Frames(msgs) ==
                IF msgs = <<>> THEN <<>>
                ELSE LET payload == encode(<<>>, Head(msgs))
                     IN <<type_hash("T"), Len(payload)>> \o payload
                            \o Frames(Tail(msgs))
            n == Len(net[e].got)
        IN /\ n <= Len(net[e].sent)
           /\ \A k \in 1..n : net[e].got[k] = Result("Ok", net[e].sent[k])
           /\ net[e].wire = Frames(SubSeq(net[e].sent, n + 1, Len(net[e].sent)))

====
